---- MODULE Spec2Model ----
(***************************************************************************)
(* A model of the document-body reader of mammoth.js and of its support    *)
(* systems: the body reader's deleted-paragraph buffer and complex-field   *)
(* stack, table row-span reconstruction, numbering level lookup and the    *)
(* style registry with basedOn inheritance.                                *)
(*                                                                         *)
(* Each subsystem has its own specification over the shared variables:     *)
(*   SpecBody       one BodyReader reading a sequence of sibling elements  *)
(*   SpecTable      readTable: rows are read, then calculateRowSpans       *)
(*   SpecNumbering  Numbering.findLevel over bounded registries            *)
(*   SpecStyles     readStylesXml over a sequence of w:style elements and  *)
(*                  readStyle lookups against the resulting registry       *)
(*   SpecReadStyle  readStyle against a bounded registry                   *)
(*   SpecNumberingXml  readAbstractNum and the paragraph-style index       *)
(*   SpecResults    the ReadResult operations                              *)
(*   SpecTree       paragraphs and tables with property blocks             *)
(*   SpecCalls      successive calls of readXmlElements                    *)
(*   SpecBullets    isVisibleBulletList                                    *)
(*   SpecDispatch   readXmlElement on a single node                        *)
(*   SpecUnits      convertToPixels and extractShapeDimensions             *)
(*   SpecRead       docx-reader's read: the parts read before the body     *)
(*   SpecFields     runs of complex-field markers read by one BodyReader   *)
(*   SpecExtra      toExtra, insertExtra and paragraphs holding w:pict     *)
(*   SpecNumberingProperties  readNumberingProperties                      *)
(***************************************************************************)
EXTENDS Integers, Sequences, FiniteSets, TLC

VARIABLES
    \* ---- body reader (BodyReader closure state and the read in progress)
    elements,                 \* the sibling elements handed to readXmlElements so far
    results,                  \* elements.map(readXmlElement): one ReadResult per element
    complexFieldStack,        \* var complexFieldStack
    currentInstrText,         \* var currentInstrText
    deletedParagraphContents, \* var deletedParagraphContents
    readResult,               \* combineResults(results) once the read completes
    bodyPc,                   \* "reading" | "done" | "thrown"
    \* ---- readTable
    tblChildren,              \* nodes read from the children of the w:tbl
    tblResult,                \* the ReadResult of readTable
    tblPc,                    \* "rows" | "done"
    \* ---- Numbering
    nums, abstractNums, numberingStyles, \* the registries findLevel closes over
    levelQuery,               \* <<numId, level>> of the last findLevel call
    levelResult,              \* its outcome
    numPc,                    \* "idle" | "called"
    \* ---- styles reader
    styleSets,                \* paragraphStyles / characterStyles / tableStyles
    customStyles,             \* customStyles: styleId -> resolved properties
    styleOrder,               \* the styleIds of the w:style elements read, in order
    stylesPc,                 \* "reading" | "thrown"
    styleRead,                \* <<styleType, w:val, result>> of the last readStyle call
    \* ---- readNumberingXml
    numberingXml,             \* the w:abstractNum elements of the w:numbering part so far
    abstractNumsRead,         \* readAbstractNums: the abstractNums object being filled
    levelsByParagraphStyleId, \* <<>> until Numbering is constructed, then <<the index>>
    styleLevelCall,           \* <<styleId, result>> of the last findLevelByParagraphStyleId
    \* ---- ReadResult operations
    resultArgs,               \* three ReadResults built with new ReadResult(...)
    resultCall,               \* <<>> or the operation last applied to them and its results
    \* ---- calls on one reader returned by createBodyReader
    earlierReads,             \* the closure state each earlier call ended with
    \* ---- isVisibleBulletList
    bulletCall,               \* <<>> or <<numId, level, outcome>> of the last call
    \* ---- readXmlElement on one node
    dispatchCall,             \* <<>> or <<node, outcome>> of the last call
    \* ---- unit conversion
    pixelsCall,               \* <<>> or <<numeral, unitType, pixels>> of the last convertToPixels
    shapeCall,                \* <<>> or <<style, dimensions>> of the last extractShapeDimensions
    \* ---- read(docxFile): the parts read before the main document
    partPaths,                \* <<>> until findPartPaths is used, then <<[headers, footers]>>
    readStage,                \* the step of the promise chain of read() that is pending
    partPc,                   \* part -> "relationships" | "xml" | "done", for the reads started
    bodyReaders,              \* part -> the body reader created for its read
    settled,                  \* the parts of the pending join, in the order their reads completed
    headers, footers,         \* <<>> until parseHeadersFooters resolves, then <<its items>>
    finalDocument,            \* <<>> until convertXmlToDocument is called, then <<its options>>
    \* ---- a paragraph holding w:pict elements
    pictCall,                 \* <<>> or <<paragraph, outcome>> of the last readXmlElement
    \* ---- readNumberingProperties
    numberingCall             \* <<>> or <<styleId, w:ilvl, w:numId, outcome>> of the last call

bodyVars == <<elements, results, complexFieldStack, currentInstrText,
              deletedParagraphContents, readResult, bodyPc>>
tblVars == <<tblChildren, tblResult, tblPc>>
numVars == <<nums, abstractNums, numberingStyles, levelQuery, levelResult, numPc>>
styleVars == <<styleSets, customStyles, styleOrder, stylesPc, styleRead>>
numXmlVars == <<numberingXml, abstractNumsRead, levelsByParagraphStyleId, styleLevelCall>>
resVars == <<resultArgs, resultCall>>
unitVars == <<pixelsCall, shapeCall>>
docVars == <<partPaths, readStage, partPc, bodyReaders, settled, headers, footers,
             finalDocument>>
lateVars == <<docVars, pictCall, numberingCall>>
callVars == <<earlierReads, bulletCall, dispatchCall, unitVars, lateVars>>
otherVars == <<numXmlVars, resVars, callVars>>
vars == <<bodyVars, tblVars, numVars, styleVars, otherVars>>

\* JavaScript's null and undefined
Null == "null"
Undefined == "undefined"

(***************************************************************************)
(* Bounds                                                                  *)
(***************************************************************************)
MaxElems == 5          \* sibling elements read by one body reader
MaxParas == 2          \* w:p elements among them
MaxTblElems == 6       \* children of one w:tbl and of its rows together
MaxCallDepth == 4      \* nested calls the engine's call stack holds
MaxStyles == 3         \* w:style elements of one styles part
MaxNumberingElems == 4 \* w:abstractNum and w:lvl elements of one numbering part
MaxCallElems == 2      \* elements handed to one call of readXmlElements
MaxCalls == 2          \* calls made on one reader
MaxDeclarations == 2    \* declarations of one v:shape style
MaxPartPaths == 2       \* header parts, and footer parts, of one package
MaxFieldElems == 5      \* runs of field markers read by one body reader
MaxFieldDepth == 2      \* complex fields open at once
MaxPictRuns == 2        \* runs of a paragraph that holds w:pict elements
MaxTreeElems == 2      \* sibling trees read by one body reader
MaxResultElems == 3    \* values, extras and messages held by three ReadResults together

(***************************************************************************)
(* XML elements (the input) and document nodes (the output)                *)
(***************************************************************************)
XmlElement(name, attr, text, children) ==
    [type |-> "element", name |-> name, attr |-> attr, text |-> text, children |-> children]

XmlT(label) == XmlElement("w:t", "", label, <<>>)
XmlFldChar(fldCharType) == XmlElement("w:fldChar", fldCharType, <<>>, <<>>)
XmlInstrText(tokens) == XmlElement("w:instrText", "", tokens, <<>>)
XmlRun(children) == XmlElement("w:r", "", <<>>, children)
\* a w:pPr whose w:rPr holds w:del (attr "del") or not (attr "")
XmlPPr(attr) == XmlElement("w:pPr", attr, <<>>, <<>>)
XmlP(children) == XmlElement("w:p", "", <<>>, children)
XmlUnknown(name) == XmlElement(name, "", <<>>, <<>>)
XmlStyleRef(styleTagName, styleId) == XmlElement(styleTagName, styleId, <<>>, <<>>)
XmlProperties(name, attr, children) == XmlElement(name, attr, <<>>, children)
XmlTbl(children) == XmlElement("w:tbl", "", <<>>, children)
XmlTr(children) == XmlElement("w:tr", "", <<>>, children)
XmlTc(children) == XmlElement("w:tc", "", <<>>, children)
XmlPict(children) == XmlElement("w:pict", "", <<>>, children)

Digits == <<"1", "2", "3", "4", "5", "6", "7", "8", "9">>

Node(type, children, val) == [type |-> type, children |-> children, val |-> val]
Text(value) == Node("text", <<>>, value)
Run(children) == Node("run", children, <<>>)
Paragraph(children) == Node("paragraph", children, <<>>)
Hyperlink(children, options) == Node("hyperlink", children, options)
Del(children) == Node("del", children, <<>>)
Checkbox(checked) == Node("checkbox", <<>>, <<IF checked THEN "checked" ELSE "unchecked">>)

(***************************************************************************)
(* ReadResult: a value, an extra channel and the accumulated messages      *)
(***************************************************************************)
ReadResult(value, extra, messages) ==
    [value |-> value, extra |-> extra, messages |-> messages]

emptyResult == ReadResult(<<>>, <<>>, <<>>)
emptyResultWithMessages(messages) == ReadResult(<<>>, <<>>, messages)
elementResult(element) == ReadResult(<<element>>, <<>>, <<>>)
elementResultWithMessages(element, messages) == ReadResult(<<element>>, <<>>, messages)

joinElements(first, second) == first \o second

\* a variant that starts the extra result with no messages
toExtra_noMessages(r) == ReadResult(<<>>, joinElements(r.extra, r.value), <<>>)
toExtra(r) == ReadResult(<<>>, joinElements(r.extra, r.value), r.messages)

\* a variant that puts the extra before the value
insertExtra_before(r) ==
    IF Len(r.extra) > 0
    THEN ReadResult(joinElements(r.extra, r.value), <<>>, r.messages)
    ELSE r

insertExtra(r) ==
    IF Len(r.extra) > 0
    THEN ReadResult(joinElements(r.value, r.extra), <<>>, r.messages)
    ELSE r

\* ReadResult.map(first, second, func) with func(first.value, second.value)
\* building one node from the children read in `second`
ReadResultMap2(first, second, node) ==
    ReadResult(<<node>>, joinElements(first.extra, second.extra),
               first.messages \o second.messages)

RECURSIVE combineFrom(_, _)
combineFrom(rs, i) ==
    IF i > Len(rs) THEN emptyResult
    ELSE LET rest == combineFrom(rs, i + 1)
         IN  ReadResult(rs[i].value \o rest.value,
                        rs[i].extra \o rest.extra,
                        rs[i].messages \o rest.messages)

\* a variant that combines the results last to first
combineResults_lastFirst(rs) == combineFrom([i \in DOMAIN rs |-> rs[Len(rs) + 1 - i]], 1)
combineResults(rs) == combineFrom(rs, 1)

\* ReadResult.prototype.map(func), with mapped = func(r.value): the extra
\* and the messages are kept
ReadResultMap(r, mapped) == ReadResult(mapped, r.extra, r.messages)

\* ReadResult.prototype.flatMap(func), with inner = func(r.value), a
\* ReadResult: its extra and messages follow those of r
ReadResultFlatMap(r, inner) ==
    ReadResult(inner.value, joinElements(r.extra, inner.extra),
               r.messages \o inner.messages)

\* Styles(paragraphStyles, characterStyles, tableStyles, ...)
Styles(paragraphStyles, characterStyles, tableStyles) ==
    [paragraph |-> paragraphStyles, character |-> characterStyles, table |-> tableStyles]

StylesEMPTY == Styles(<<>>, <<>>, <<>>)

Lookup(map, key) == IF key \in DOMAIN map THEN <<map[key]>> ELSE <<>>

(***************************************************************************)
(* readStyle: the style reference of a paragraph, run or table             *)
(***************************************************************************)
undefinedStyleWarning(type, styleId) ==
    <<type, "style with ID", styleId, "was referenced but not defined in the document">>

StyleResult(styleId, name) == [styleId |-> styleId, name |-> name]

\* styleElement: <<>> when the properties hold no w:pStyle / w:rStyle /
\* w:tblStyle, <<attr>> otherwise with attr the optional w:val;
\* styleSet: the registry findStyleById looks the id up in
readStyle(styleElement, styleType, styleSet) ==
    IF styleElement = <<>>
    THEN elementResultWithMessages(StyleResult(Null, Null), <<>>)
    ELSE LET styleId == IF styleElement[1] = <<>> THEN Undefined ELSE styleElement[1][1]
         IN  IF styleId # Undefined /\ styleId # ""
             THEN LET style == Lookup(styleSet, styleId)
                  IN  IF style # <<>>
                      THEN elementResultWithMessages(StyleResult(styleId, style[1].name), <<>>)
                      ELSE elementResultWithMessages(
                               StyleResult(styleId, Null),
                               <<undefinedStyleWarning(styleType, styleId)>>)
             ELSE elementResultWithMessages(StyleResult(styleId, Null), <<>>)

readParagraphStyle(styleElement, styles) == readStyle(styleElement, "Paragraph", styles.paragraph)
\* a variant that looks a run's style up among the paragraph styles
readRunStyle_paragraphSet(styleElement, styles) == readStyle(styleElement, "Run", styles.paragraph)
readRunStyle(styleElement, styles) == readStyle(styleElement, "Run", styles.character)
readTableStyle(styleElement, styles) == readStyle(styleElement, "Table", styles.table)

(***************************************************************************)
(* Complex fields.  Instruction text is a sequence of tokens: the words    *)
(* "HYPERLINK" and "FORMCHECKBOX", "SP" for one whitespace character,      *)
(* "QUOTE" for a double quote, "\\l" for the switch, anything else a piece *)
(* of text without quotes or whitespace.                                   *)
(***************************************************************************)
Frame(type, options, checked) == [type |-> type, options |-> options, checked |-> checked]

RECURSIVE Flatten(_)
Flatten(pieces) ==
    IF pieces = <<>> THEN <<>> ELSE Head(pieces) \o Flatten(Tail(pieces))

\* index of the first token at or after i that is not whitespace
RECURSIVE SkipSpaces(_, _)
SkipSpaces(tok, i) ==
    IF i <= Len(tok) /\ tok[i] = "SP" THEN SkipSpaces(tok, i + 1) ELSE i

QuotesAfter(tok, i) == {j \in (i + 1)..Len(tok) : tok[j] = "QUOTE"}
MaxOf(S) == CHOOSE x \in S : \A y \in S : y <= x
MinOf(S) == CHOOSE x \in S : \A y \in S : x <= y
SeqsUpTo(S, n) == UNION {[1..k -> S] : k \in 0..n}

\* /\s*HYPERLINK "(.*)"/ : positions of the opening quote of a match
ExternalLinkStarts(tok) ==
    {i + 2 : i \in {k \in 1..Len(tok) :
        /\ k + 2 <= Len(tok)
        /\ tok[k] = "HYPERLINK" /\ tok[k + 1] = "SP" /\ tok[k + 2] = "QUOTE"
        /\ QuotesAfter(tok, k + 2) # {}}}

\* /\s*HYPERLINK\s+\\l\s+"(.*)"/ : positions of the opening quote of a match
InternalLinkStarts(tok) ==
    {q \in 1..Len(tok) : \E k \in 1..Len(tok) :
        LET s == SkipSpaces(tok, k + 1)
            t == SkipSpaces(tok, s + 1)
        IN  /\ tok[k] = "HYPERLINK"
            /\ s > k + 1 /\ s <= Len(tok) /\ tok[s] = "\\l"
            /\ t > s + 1 /\ t <= Len(tok) /\ tok[t] = "QUOTE"
            /\ q = t
            /\ QuotesAfter(tok, t) # {}}

\* the group (.*) is greedy: it runs to the last quote
QuotedFrom(tok, q) == SubSeq(tok, q + 1, MaxOf(QuotesAfter(tok, q)) - 1)

parseInstrText(instrText, fldCharChecked) ==
    IF ExternalLinkStarts(instrText) # {}
    THEN Frame("hyperlink",
               <<"href">> \o QuotedFrom(instrText, MinOf(ExternalLinkStarts(instrText))), FALSE)
    ELSE IF InternalLinkStarts(instrText) # {}
    THEN Frame("hyperlink",
               <<"anchor">> \o QuotedFrom(instrText, MinOf(InternalLinkStarts(instrText))), FALSE)
    ELSE IF \E i \in 1..Len(instrText) : instrText[i] = "FORMCHECKBOX"
    THEN Frame("checkbox", <<>>, fldCharChecked)
    ELSE Frame("unknown", <<>>, FALSE)

\* a "begin" frame carries its fldChar (here: the checkbox state it holds);
\* any other frame is parsed against xml.emptyElement
parseCurrentInstrText(complexField, st) ==
    parseInstrText(Flatten(st.currentInstrText),
                   IF complexField.type = "begin" THEN complexField.checked ELSE FALSE)

\* a variant that looks at the top frame only
currentHyperlinkOptions_topOnly(stack) ==
    IF stack # <<>> /\ stack[Len(stack)].type = "hyperlink"
    THEN stack[Len(stack)].options ELSE <<Null>>

\* the options of the last frame of type hyperlink, or Null
currentHyperlinkOptions(stack) ==
    LET hs == {i \in 1..Len(stack) : stack[i].type = "hyperlink"}
    IN  IF hs = {} THEN <<Null>> ELSE stack[MaxOf(hs)].options

(***************************************************************************)
(* Table nodes and calculateRowSpans                                       *)
(***************************************************************************)
TableCell(children, colSpan, vMerge) ==
    [type |-> "tableCell", children |-> children, colSpan |-> colSpan, rowSpan |-> 1,
     vMerge |-> vMerge]
TableRow(children) == [type |-> "tableRow", children |-> children]
Table(children) == [type |-> "table", children |-> children]

\* w:tcPr/w:vMerge: "absent" (no element), "noval" (no w:val), or the w:val.
\* The result is the transient cell._vMerge: "true", "false" or "null".
readVMerge(vMergeVal) ==
    IF vMergeVal # "absent"
    THEN IF vMergeVal = "continue" \/ vMergeVal = "noval" THEN "true" ELSE "false"
    ELSE "null"

\* a w:tc with its grid span and w:vMerge, holding one text
readTableCell(gridSpan, vMergeVal, label) ==
    TableCell(<<Text(label)>>, gridSpan, readVMerge(vMergeVal))

SetCell(rows, i, j, cell) ==
    [rows EXCEPT ![i] = [@ EXCEPT !.children = [@ EXCEPT ![j] = cell]]]

\* a variant whose column cursor advances by one per cell, not by colSpan
RECURSIVE markRowSpans_unitColumns(_, _, _, _, _)
markRowSpans_unitColumns(rows, i, j, cellIndex, columns) ==
    IF i > Len(rows) THEN rows
    ELSE IF j > Len(rows[i].children) THEN markRowSpans_unitColumns(rows, i + 1, 1, 0, columns)
    ELSE LET cell == rows[i].children[j]
         IN  IF cell.vMerge = "true" /\ cellIndex \in DOMAIN columns
             THEN LET o == columns[cellIndex]
                      owner == rows[o[1]].children[o[2]]
                  IN  markRowSpans_unitColumns(
                          SetCell(rows, o[1], o[2], [owner EXCEPT !.rowSpan = @ + 1]),
                          i, j + 1, cellIndex + 1, columns)
             ELSE markRowSpans_unitColumns(
                      SetCell(rows, i, j, [cell EXCEPT !.vMerge = "false"]),
                      i, j + 1, cellIndex + 1,
                      [c \in DOMAIN columns \cup {cellIndex} |->
                          IF c = cellIndex THEN <<i, j>> ELSE columns[c]])

\* the first pass of calculateRowSpans from cell j of row i on; columns maps
\* a column index to the position <<row, cell>> of the cell that owns it
RECURSIVE markRowSpans(_, _, _, _, _)
markRowSpans(rows, i, j, cellIndex, columns) ==
    IF i > Len(rows) THEN rows
    ELSE IF j > Len(rows[i].children) THEN markRowSpans(rows, i + 1, 1, 0, columns)
    ELSE LET cell == rows[i].children[j]
         IN  IF cell.vMerge = "true" /\ cellIndex \in DOMAIN columns
             THEN LET o == columns[cellIndex]
                      owner == rows[o[1]].children[o[2]]
                  IN  markRowSpans(
                          SetCell(rows, o[1], o[2], [owner EXCEPT !.rowSpan = @ + 1]),
                          i, j + 1, cellIndex + cell.colSpan, columns)
             ELSE markRowSpans(
                      SetCell(rows, i, j, [cell EXCEPT !.vMerge = "false"]),
                      i, j + 1, cellIndex + cell.colSpan,
                      [c \in DOMAIN columns \cup {cellIndex} |->
                          IF c = cellIndex THEN <<i, j>> ELSE columns[c]])

\* a variant that keeps every cell
IsKeptCell_all(cell) == TRUE

\* !cell._vMerge
IsKeptCell(cell) == cell.vMerge # "true"
DeleteVMerge(cell) == [cell EXCEPT !.vMerge = "absent"]

\* the second pass: drop the merged cells, delete the flag of the others
stripMergedCells(rows) ==
    [i \in 1..Len(rows) |->
        LET kept == SelectSeq(rows[i].children, IsKeptCell)
        IN  [rows[i] EXCEPT !.children = [j \in 1..Len(kept) |-> DeleteVMerge(kept[j])]]]

NonRowWarning == <<"unexpected non-row element in table, cell merging may be incorrect">>
NonCellWarning == <<"unexpected non-cell element in table row, cell merging may be incorrect">>

unexpectedNonRows(rows) == \E i \in 1..Len(rows) : rows[i].type # "tableRow"
unexpectedNonCells(rows) ==
    \E i \in 1..Len(rows) : \E j \in 1..Len(rows[i].children) :
        rows[i].children[j].type # "tableCell"

\* a variant that returns the rows of a malformed table without a warning
calculateRowSpans_silent(rows) ==
    IF unexpectedNonRows(rows) \/ unexpectedNonCells(rows) THEN ReadResult(rows, <<>>, <<>>)
    ELSE ReadResult(stripMergedCells(markRowSpans(rows, 1, 1, 0, <<>>)), <<>>, <<>>)

calculateRowSpans(rows) ==
    IF unexpectedNonRows(rows) THEN ReadResult(rows, <<>>, <<NonRowWarning>>)
    ELSE IF unexpectedNonCells(rows) THEN ReadResult(rows, <<>>, <<NonCellWarning>>)
    ELSE ReadResult(stripMergedCells(markRowSpans(rows, 1, 1, 0, <<>>)), <<>>, <<>>)

(***************************************************************************)
(* BodyReader.  The closure state is threaded through the recursive        *)
(* descent as a record st; a reader returns its ReadResult, the state it   *)
(* leaves and whether it threw.                                            *)
(***************************************************************************)
ReaderState(stack, instr, deleted) ==
    [complexFieldStack |-> stack, currentInstrText |-> instr,
     deletedParagraphContents |-> deleted]

Returned(r, st) == [res |-> r, st |-> st, thrown |-> FALSE]
\* a TypeError raised inside a reader: no result
Threw(st) == [res |-> emptyResult, st |-> st, thrown |-> TRUE]

ignoreElements ==
    {"office-word:wrap", "v:shadow", "v:shapetype", "w:annotationRef", "w:bookmarkEnd",
     "w:sectPr", "w:proofErr", "w:lastRenderedPageBreak", "w:del", "w:footnoteRef",
     "w:endnoteRef", "w:pPr", "w:rPr", "w:tblPr", "w:tblGrid", "w:trPr", "w:tcPr"}

\* the own properties of xmlElementReaders that have a reader here
xmlElementReaderNames ==
    {"w:p", "w:r", "w:fldChar", "w:instrText", "w:t", "w:tbl", "w:tr", "w:tc", "w:del",
     "w:pict"}

\* the names xmlElementReaders[name] finds on Object.prototype
inheritedNames ==
    {"constructor", "toString", "toLocaleString", "valueOf", "hasOwnProperty",
     "isPrototypeOf", "propertyIsEnumerable", "__proto__"}

\* handler(element) with a member of Object.prototype: a TypeError, or a
\* value that is no ReadResult, on which combineResults raises one
inheritedHandler(st) == Threw(st)

\* a variant that leaves the array as it is
Pop_kept(stack) == stack

\* the array after complexFieldStack.pop()
Pop(stack) == SubSeq(stack, 1, Len(stack) - 1)

\* a variant that emits a Checkbox node for every frame ended
fldCharEndResult_always(complexFieldEnd) ==
    elementResult(Checkbox(complexFieldEnd.checked))

\* what readFldChar returns for "end", given the frame popped and classified
fldCharEndResult(complexFieldEnd) ==
    IF complexFieldEnd.type = "checkbox"
    THEN elementResult(Checkbox(complexFieldEnd.checked))
    ELSE emptyResult

\* a variant in which reading .type of undefined yields undefined
typeOfUndefined_ignored(st) == Returned(emptyResult, st)

\* undefined.type: a TypeError is thrown
typeOfUndefined(st) == Threw(st)

readFldChar(element, st) ==
    LET stack == st.complexFieldStack
        type == element.attr
    IN  IF type = "begin"
        THEN Returned(emptyResult,
                      ReaderState(Append(stack, Frame("begin", <<>>, FALSE)), <<>>,
                                  st.deletedParagraphContents))
        ELSE IF type = "end"
        THEN IF stack = <<>>
             THEN typeOfUndefined(st)   \* complexFieldEnd is undefined
             ELSE LET popped == stack[Len(stack)]
                      st1 == ReaderState(Pop(stack), st.currentInstrText,
                                         st.deletedParagraphContents)
                      complexFieldEnd == IF popped.type = "begin"
                                         THEN parseCurrentInstrText(popped, st1)
                                         ELSE popped
                  IN  Returned(fldCharEndResult(complexFieldEnd), st1)
        ELSE IF type = "separate"
        THEN IF stack = <<>>
             THEN typeOfUndefined(st)   \* parseCurrentInstrText(undefined)
             ELSE LET complexField == parseCurrentInstrText(stack[Len(stack)], st)
                  IN  Returned(emptyResult,
                               ReaderState(Append(Pop(stack), complexField),
                                           st.currentInstrText,
                                           st.deletedParagraphContents))
        ELSE Returned(emptyResult, st)

readInstrText(element, st) ==
    Returned(emptyResult,
             ReaderState(st.complexFieldStack, Append(st.currentInstrText, element.text),
                         st.deletedParagraphContents))

\* !!element.firstOrEmpty("w:pPr").firstOrEmpty("w:rPr").first("w:del")
isDeletedParagraph(element) ==
    LET pPrs == {i \in 1..Len(element.children) : element.children[i].name = "w:pPr"}
    IN  pPrs # {} /\ element.children[MinOf(pPrs)].attr = "del"

\* a variant that reads the buffered children after the paragraph's own
paragraphChildrenXml_ownFirst(element, st) ==
    IF Len(st.deletedParagraphContents) > 0
    THEN element.children \o st.deletedParagraphContents
    ELSE element.children

\* the children a non-deleted w:p reads: the buffered ones first
paragraphChildrenXml(element, st) ==
    IF Len(st.deletedParagraphContents) > 0
    THEN st.deletedParagraphContents \o element.children
    ELSE element.children

\* element.first(name): the first child of that name, <<>> when there is none
first(element, name) ==
    LET named == {i \in 1..Len(element.children) : element.children[i].name = name}
    IN  IF named = {} THEN <<>> ELSE <<element.children[MinOf(named)]>>

\* xml.emptyElement: no children, no attributes
emptyElement == XmlElement("", "", <<>>, <<>>)
firstOrEmpty(element, name) ==
    IF first(element, name) = <<>> THEN emptyElement ELSE first(element, name)[1]

\* options.styles of the body reader: one defined paragraph style
bodyStyles == Styles(("Heading1" :> [name |-> "Heading 1"]), <<>>, <<>>)

\* element.first(styleTagName) as readStyle takes it: the w:val when present
styleElementOf(element, styleTagName) ==
    IF first(element, styleTagName) = <<>> THEN <<>>
    ELSE <<<<first(element, styleTagName)[1].attr>>>>

\* the properties are read for the style they name: the value carries the
\* style, the messages the warning of an undefined one
readParagraphProperties(element) ==
    readParagraphStyle(styleElementOf(element, "w:pStyle"), bodyStyles)
readRunProperties(element) ==
    readRunStyle(styleElementOf(element, "w:rStyle"), bodyStyles)
readTableProperties(element) ==
    readTableStyle(styleElementOf(element, "w:tblStyle"), bodyStyles)

\* a variant that wraps only a run that has children
runChildren_nonEmptyOnly(children, stack) ==
    IF currentHyperlinkOptions(stack) # <<Null>> /\ children # <<>>
    THEN <<Hyperlink(children, currentHyperlinkOptions(stack))>>
    ELSE children

\* the children of the Run node: wrapped when a hyperlink field is open
runChildren(children, stack) ==
    IF currentHyperlinkOptions(stack) # <<Null>>
    THEN <<Hyperlink(children, currentHyperlinkOptions(stack))>>
    ELSE children

RECURSIVE readXmlElement(_, _)
RECURSIVE readEach(_, _, _)

\* elements.map(readXmlElement) from index i on: the results, in order
readEach(elems, i, st) ==
    IF i > Len(elems) THEN [rs |-> <<>>, st |-> st, thrown |-> FALSE]
    ELSE LET head == readXmlElement(elems[i], st)
         IN  IF head.thrown THEN [rs |-> <<>>, st |-> head.st, thrown |-> TRUE]
             ELSE LET rest == readEach(elems, i + 1, head.st)
                  IN  [rs |-> <<head.res>> \o rest.rs, st |-> rest.st,
                       thrown |-> rest.thrown]

readXmlElements(elems, st) ==
    LET each == readEach(elems, 1, st)
    IN  IF each.thrown THEN Threw(each.st)
        ELSE Returned(combineResults(each.rs), each.st)

readParagraph(element, st) ==
    IF isDeletedParagraph(element)
    THEN Returned(emptyResult,
                  ReaderState(st.complexFieldStack, st.currentInstrText,
                              st.deletedParagraphContents \o element.children))
    ELSE LET childrenXml == paragraphChildrenXml(element, st)
             st1 == ReaderState(st.complexFieldStack, st.currentInstrText, <<>>)
             kids == readXmlElements(childrenXml, st1)
         IN  IF kids.thrown THEN kids
             ELSE Returned(insertExtra(ReadResultMap2(
                               readParagraphProperties(firstOrEmpty(element, "w:pPr")),
                               kids.res,
                               Paragraph(kids.res.value))),
                           kids.st)

readRun(element, st) ==
    LET kids == readXmlElements(element.children, st)
    IN  IF kids.thrown THEN kids
        ELSE Returned(ReadResultMap2(readRunProperties(firstOrEmpty(element, "w:rPr")),
                                     kids.res,
                                     Run(runChildren(kids.res.value,
                                                     kids.st.complexFieldStack))),
                      kids.st)

\* the w:del reader: the children in a Del node inside a Run
readDel(element, st) ==
    LET kids == readXmlElements(element.children, st)
    IN  IF kids.thrown THEN kids
        ELSE Returned(ReadResultMap2(readRunProperties(firstOrEmpty(element, "w:rPr")),
                                     kids.res, Run(<<Del(kids.res.value)>>)),
                      kids.st)

\* parseInt(gridSpan, 10) of a one-digit w:val
ParseDigit(text) == CHOOSE n \in 1..Len(Digits) : Digits[n] = text

\* the w:vMerge of a w:tcPr as readVMerge takes it
vMergeOf(properties) ==
    IF first(properties, "w:vMerge") = <<>> THEN "absent"
    ELSE IF first(properties, "w:vMerge")[1].attr = "" THEN "noval"
    ELSE first(properties, "w:vMerge")[1].attr

\* readTableCell on a w:tc element
readTableCellElement(element, st) ==
    LET kids == readXmlElements(element.children, st)
        properties == firstOrEmpty(element, "w:tcPr")
        gridSpan == firstOrEmpty(properties, "w:gridSpan").attr
        colSpan == IF gridSpan # "" THEN ParseDigit(gridSpan) ELSE 1
    IN  IF kids.thrown THEN kids
        ELSE Returned(ReadResultMap(kids.res,
                          <<TableCell(kids.res.value, colSpan,
                                      readVMerge(vMergeOf(properties)))>>),
                      kids.st)

\* readTableRow on a w:tr element: a deleted row is not read
readTableRowElement(element, st) ==
    IF first(firstOrEmpty(element, "w:trPr"), "w:del") # <<>>
    THEN Returned(emptyResult, st)
    ELSE LET kids == readXmlElements(element.children, st)
         IN  IF kids.thrown THEN kids
             ELSE Returned(ReadResultMap(kids.res, <<TableRow(kids.res.value)>>), kids.st)

\* readTable on a w:tbl element: the children, then calculateRowSpans, then
\* the properties read from w:tblPr
readTableElement(element, st) ==
    LET propertiesResult == readTableProperties(firstOrEmpty(element, "w:tblPr"))
        kids == readXmlElements(element.children, st)
    IN  IF kids.thrown THEN kids
        ELSE LET spans == ReadResultFlatMap(kids.res, calculateRowSpans(kids.res.value))
             IN  Returned(ReadResultFlatMap(spans,
                              ReadResultMap(propertiesResult, <<Table(spans.value)>>)),
                          kids.st)

\* the w:pict reader: readChildElements(element).toExtra()
readPict(element, st) ==
    LET kids == readXmlElements(element.children, st)
    IN  IF kids.thrown THEN kids ELSE Returned(toExtra(kids.res), kids.st)

readXmlElement(element, st) ==
    IF element.type = "element"
    THEN IF element.name = "w:p" THEN readParagraph(element, st)
         ELSE IF element.name = "w:r" THEN readRun(element, st)
         ELSE IF element.name = "w:tbl" THEN readTableElement(element, st)
         ELSE IF element.name = "w:tr" THEN readTableRowElement(element, st)
         ELSE IF element.name = "w:tc" THEN readTableCellElement(element, st)
         ELSE IF element.name = "w:fldChar" THEN readFldChar(element, st)
         ELSE IF element.name = "w:instrText" THEN readInstrText(element, st)
         ELSE IF element.name = "w:t" THEN Returned(elementResult(Text(element.text)), st)
         ELSE IF element.name = "w:del" THEN readDel(element, st)
         ELSE IF element.name = "w:pict" THEN readPict(element, st)
         ELSE IF element.name \in inheritedNames THEN inheritedHandler(st)
         ELSE IF element.name \notin ignoreElements
         THEN Returned(emptyResultWithMessages(
                           <<<<"An unrecognised element was ignored", element.name>>>>), st)
         ELSE Returned(emptyResult, st)
    ELSE Returned(emptyResult, st)

(***************************************************************************)
(* The documents read.  Every w:t carries a label naming its position      *)
(* (sibling index, child index), so each text of the input is distinct.    *)
(***************************************************************************)
Label(k, j) == <<"t", Digits[k], Digits[j]>>

HyperlinkInstr == <<"HYPERLINK", "SP", "QUOTE", "http://x", "QUOTE">>

RunChildKinds == {"t", "begin", "separate", "end", "instr"}
\* the runs a paragraph of the input may hold
ParagraphChildren == {<<>>, <<"t">>, <<"begin">>}

RunChild(kind, k, j) ==
    IF kind = "t" THEN XmlT(Label(k, j))
    ELSE IF kind = "instr" THEN XmlInstrText(HyperlinkInstr)
    ELSE XmlFldChar(kind)

\* the k-th sibling as a run with one child
RunElement(kind, k) == XmlRun(<<RunChild(kind, k, 1)>>)

\* the k-th sibling as a paragraph; a deleted one has w:pPr/w:rPr/w:del
ParagraphElement(deleted, kinds, k) ==
    XmlP((IF deleted THEN <<XmlPPr("del")>> ELSE <<>>)
         \o [j \in 1..Len(kinds) |-> XmlRun(<<RunChild(kinds[j], k, j)>>)])

ParagraphCount(elems) == Cardinality({i \in 1..Len(elems) : elems[i].name = "w:p"})

(***************************************************************************)
(* SpecBody: one BodyReader reads a sequence of sibling elements           *)
(***************************************************************************)
InitBody ==
    /\ elements = <<>>
    /\ results = <<>>
    /\ complexFieldStack = <<>>
    /\ currentInstrText = <<>>
    /\ deletedParagraphContents = <<>>
    /\ readResult = emptyResult
    /\ bodyPc = "reading"

\* results[k] = readXmlElement(elements[k]) inside elements.map(readXmlElement)
ReadNext(element) ==
    LET out == readXmlElement(element,
                   ReaderState(complexFieldStack, currentInstrText,
                               deletedParagraphContents))
    IN  /\ elements' = Append(elements, element)
        /\ complexFieldStack' = out.st.complexFieldStack
        /\ currentInstrText' = out.st.currentInstrText
        /\ deletedParagraphContents' = out.st.deletedParagraphContents
        /\ results' = IF out.thrown THEN results ELSE Append(results, out.res)
        /\ bodyPc' = IF out.thrown THEN "thrown" ELSE "reading"
        /\ UNCHANGED readResult

ReadRunElement ==
    /\ bodyPc = "reading"
    /\ Len(elements) < MaxElems
    /\ \E kind \in RunChildKinds : ReadNext(RunElement(kind, Len(elements) + 1))
    /\ UNCHANGED <<tblVars, numVars, styleVars, otherVars>>

ReadParagraphElement ==
    /\ bodyPc = "reading"
    /\ Len(elements) < MaxElems
    /\ ParagraphCount(elements) < MaxParas
    /\ \E deleted \in BOOLEAN, kinds \in ParagraphChildren :
          ReadNext(ParagraphElement(deleted, kinds, Len(elements) + 1))
    /\ UNCHANGED <<tblVars, numVars, styleVars, otherVars>>

\* readXmlElements returns combineResults(results)
FinishRead ==
    /\ bodyPc = "reading"
    /\ readResult' = combineResults(results)
    /\ bodyPc' = "done"
    /\ UNCHANGED <<elements, results, complexFieldStack, currentInstrText,
                   deletedParagraphContents>>
    /\ UNCHANGED <<tblVars, numVars, styleVars, otherVars>>

(***************************************************************************)
(* SpecFields: one body reader reads runs that open, separate and end      *)
(* complex fields with different instruction texts                         *)
(***************************************************************************)
\* HYPERLINK "http://y", FORMCHECKBOX and PAGE
InstrTexts ==
    [x |-> HyperlinkInstr,
     y |-> <<"HYPERLINK", "SP", "QUOTE", "http://y", "QUOTE">>,
     checkbox |-> <<"FORMCHECKBOX">>,
     page |-> <<"PAGE">>]

\* the k-th sibling: a run that holds a field marker or an instruction
\* text, followed by a text
FieldRun(marker, instr, k) ==
    XmlRun((IF marker = "instr" THEN <<>> ELSE <<XmlFldChar(marker)>>)
           \o (IF instr = "" THEN <<>> ELSE <<XmlInstrText(InstrTexts[instr])>>)
           \o <<XmlT(Label(k, 1))>>)

FieldRuns(k) ==
    {FieldRun("begin", instr, k) : instr \in DOMAIN InstrTexts}
    \cup {FieldRun("separate", "", k), FieldRun("end", "", k), FieldRun("instr", "y", k)}

ReadFieldRun ==
    /\ bodyPc = "reading"
    /\ Len(elements) < MaxFieldElems
    /\ \E element \in FieldRuns(Len(elements) + 1) :
          /\ element.children[1].attr = "begin" => Len(complexFieldStack) < MaxFieldDepth
          /\ ReadNext(element)
    /\ UNCHANGED <<tblVars, numVars, styleVars, otherVars>>

(***************************************************************************)
(* JavaScript numbers.  A Number is an IEEE 754 double: a sign, a          *)
(* significand of 53 bits and a power of two.  The significand and the     *)
(* integers met on the way are naturals written as sequences of limbs in   *)
(* base 2^15, least significant first, with no zero limb at the top.       *)
(***************************************************************************)
LimbBits == 15
LimbBase == 2^LimbBits
SignificandBits == 53

RECURSIVE NatOf(_)
NatOf(x) == IF x = 0 THEN <<>> ELSE <<x % LimbBase>> \o NatOf(x \div LimbBase)

RECURSIVE Strip(_)
Strip(a) ==
    IF a # <<>> /\ a[Len(a)] = 0 THEN Strip(SubSeq(a, 1, Len(a) - 1)) ELSE a

LimbAt(a, i) == IF i <= Len(a) THEN a[i] ELSE 0

NatLess(a, b) ==
    IF Len(a) # Len(b) THEN Len(a) < Len(b)
    ELSE LET differ == {i \in 1..Len(a) : a[i] # b[i]}
         IN  differ # {} /\ a[MaxOf(differ)] < b[MaxOf(differ)]

RECURSIVE AddFrom(_, _, _, _)
AddFrom(a, b, i, carry) ==
    IF i > Len(a) /\ i > Len(b) THEN (IF carry = 0 THEN <<>> ELSE <<carry>>)
    ELSE LET t == LimbAt(a, i) + LimbAt(b, i) + carry
         IN  <<t % LimbBase>> \o AddFrom(a, b, i + 1, t \div LimbBase)
NatAdd(a, b) == AddFrom(a, b, 1, 0)

\* a - b for a >= b
RECURSIVE SubFrom(_, _, _, _)
SubFrom(a, b, i, borrow) ==
    IF i > Len(a) THEN <<>>
    ELSE LET t == a[i] - LimbAt(b, i) - borrow
         IN  <<IF t < 0 THEN t + LimbBase ELSE t>>
             \o SubFrom(a, b, i + 1, IF t < 0 THEN 1 ELSE 0)
NatSub(a, b) == Strip(SubFrom(a, b, 1, 0))

\* a * k for a limb k
RECURSIVE MulFrom(_, _, _, _)
MulFrom(a, k, i, carry) ==
    IF i > Len(a) THEN (IF carry = 0 THEN <<>> ELSE <<carry>>)
    ELSE LET t == a[i] * k + carry
         IN  <<t % LimbBase>> \o MulFrom(a, k, i + 1, t \div LimbBase)
NatMulSmall(a, k) == Strip(MulFrom(a, k, 1, 0))

NatShiftLimbs(a, n) == IF a = <<>> THEN <<>> ELSE [i \in 1..n |-> 0] \o a

RECURSIVE MulAcc(_, _, _)
MulAcc(a, b, i) ==
    IF i > Len(b) THEN <<>>
    ELSE NatAdd(NatShiftLimbs(NatMulSmall(a, b[i]), i - 1), MulAcc(a, b, i + 1))
NatMul(a, b) == MulAcc(a, b, 1)

BitLenSmall(x) == CHOOSE k \in 0..LimbBits : x < 2^k /\ (k = 0 \/ 2^(k - 1) <= x)
NatBitLen(a) ==
    IF a = <<>> THEN 0 ELSE LimbBits * (Len(a) - 1) + BitLenSmall(a[Len(a)])

\* a * 2^k
NatShl(a, k) == NatShiftLimbs(NatMulSmall(a, 2^(k % LimbBits)), k \div LimbBits)
\* a div 2^s for s below the limb width
NatShrSmall(a, s) ==
    Strip([i \in 1..Len(a) |->
              (a[i] \div 2^s) + (LimbAt(a, i + 1) % 2^s) * 2^(LimbBits - s)])
\* bit i of a, bit 0 the lowest
NatBit(a, i) == (LimbAt(a, i \div LimbBits + 1) \div 2^(i % LimbBits)) % 2

\* the element of a one-element set: The({F(v) : v \in {e}}) is F(e) with e
\* evaluated once
The(S) == CHOOSE x \in S : TRUE

\* one step of long division: bit i of n is brought down to the quotient
\* and remainder s
DivStep(n, d, i, s) ==
    IF i < 0 THEN s
    ELSE The({[q |-> NatAdd(NatMulSmall(s.q, 2),
                           IF NatLess(r1, d) THEN <<>> ELSE <<1>>),
               r |-> IF NatLess(r1, d) THEN r1 ELSE NatSub(r1, d)] :
              r1 \in {NatAdd(NatMulSmall(s.r, 2), NatOf(NatBit(n, i)))}})

\* long division from bit i of n down, four bits at a time
RECURSIVE DivFrom(_, _, _, _)
DivFrom(n, d, i, s) ==
    IF i < 0 THEN s
    ELSE The({DivFrom(n, d, i - 4, s4) :
              s4 \in {DivStep(n, d, i - 3, s3) :
              s3 \in {DivStep(n, d, i - 2, s2) :
              s2 \in {DivStep(n, d, i - 1, s1) :
              s1 \in {DivStep(n, d, i, s)}}}}})

\* division by a limb k, from limb i of n down, with the remainder so far
RECURSIVE DivSmallFrom(_, _, _, _)
DivSmallFrom(n, k, i, rem) ==
    IF i = 0 THEN [q |-> <<>>, r |-> NatOf(rem)]
    ELSE The({[q |-> Append(below.q, (rem * LimbBase + n[i]) \div k), r |-> below.r] :
              below \in {DivSmallFrom(n, k, i - 1, (rem * LimbBase + n[i]) % k)}})

\* quotient and remainder of n by d
NatDivMod(n, d) ==
    IF Len(d) = 1
    THEN The({[q |-> Strip(small.q), r |-> small.r] :
              small \in {DivSmallFrom(n, d[1], Len(n), 0)}})
    ELSE DivFrom(n, d, NatBitLen(n) - 1, [q |-> <<>>, r |-> <<>>])

\* a div 2^k, and whether a is a multiple of 2^k
NatShr(a, k) == NatShrSmall(SubSeq(a, k \div LimbBits + 1, Len(a)), k % LimbBits)
NatLowZero(a, k) ==
    /\ \A i \in 1..(k \div LimbBits) : LimbAt(a, i) = 0
    /\ LimbAt(a, k \div LimbBits + 1) % 2^(k % LimbBits) = 0

\* the value sign * m * 2^e, m = <<>> for zero
Double(sign, m, e) == [sign |-> sign, m |-> m, e |-> e]
Zero == Double(1, <<>>, 0)

\* a quotient q of two or three bits more than a significand, rounded to
\* the nearest significand, ties to even; exact: nothing was cut off q
RoundQuotient(sign, q, exact, e) ==
    LET drop == NatBitLen(q) - SignificandBits
        low == q[1] % 2^drop
        half == 2^(drop - 1)
    IN  The({IF NatBitLen(m1) > SignificandBits
             THEN Double(sign, NatShrSmall(m1, 1), e + drop + 1)
             ELSE Double(sign, m1, e + drop) :
             m1 \in {IF low > half \/ (low = half /\ (~exact \/ m0[1] % 2 = 1))
                     THEN NatAdd(m0, <<1>>) ELSE m0 :
                     m0 \in {NatShrSmall(q, drop)}}})

\* the double nearest to sign * (n / d) * 2^e: n is scaled by 2^k so that
\* the quotient has two or three bits to spare
RoundScaled(sign, n, d, e, k) ==
    The({RoundQuotient(sign, division.q,
                       division.r = <<>> /\ (k >= 0 \/ NatLowZero(n, 0 - k)), e - k) :
         division \in {NatDivMod(IF k >= 0 THEN NatShl(n, k) ELSE NatShr(n, 0 - k), d)}})

RoundRational(sign, n, d, e) ==
    IF n = <<>> THEN Zero
    ELSE RoundScaled(sign, n, d, e, SignificandBits + 2 + NatBitLen(d) - NatBitLen(n))

\* x * y and x / y of two Numbers
NumberTimes(x, y) ==
    The({RoundRational(x.sign * y.sign, product, <<1>>, x.e + y.e) :
         product \in {NatMul(x.m, y.m)}})
NumberDividedBy(x, y) ==
    RoundRational(x.sign * y.sign, x.m, y.m, x.e - y.e)

\* the Number a decimal numeral denotes: digits / 10^decimals
Numeral(digits, decimals) == [digits |-> digits, decimals |-> decimals]
parseFloat(numeral) ==
    RoundRational(1, NatOf(numeral.digits), NatOf(10^numeral.decimals), 0)
NumberOf(x) == parseFloat(Numeral(x, 0))

\* x > y for a Number x and a natural y
NumberGreater(x, y) ==
    /\ x.sign = 1
    /\ IF x.e >= 0 THEN NatLess(NatOf(y), NatShl(x.m, x.e))
       ELSE NatLess(NatShl(NatOf(y), 0 - x.e), x.m)

(***************************************************************************)
(* convertToPixels and extractShapeDimensions                              *)
(***************************************************************************)
\* 96 / 914400, 96 / 72 and 96 / 2.54
PixelsPerEmu == NumberDividedBy(NumberOf(96), NumberOf(914400))
PixelsPerPoint == NumberDividedBy(NumberOf(96), NumberOf(72))
PixelsPerCm == NumberDividedBy(NumberOf(96), parseFloat(Numeral(254, 2)))

\* a variant that takes a DXA as a twelfth of a point
convertToPixels_twelfths(rawValue, unitType) ==
    IF unitType = "EMU" THEN NumberTimes(rawValue, PixelsPerEmu)
    ELSE IF unitType = "DXA"
    THEN NumberTimes(NumberDividedBy(rawValue, NumberOf(12)), PixelsPerPoint)
    ELSE IF unitType = "pt" THEN NumberTimes(rawValue, PixelsPerPoint)
    ELSE IF unitType = "cm" THEN NumberTimes(rawValue, PixelsPerCm)
    ELSE IF unitType = "in" THEN NumberTimes(rawValue, NumberOf(96))
    ELSE rawValue

\* the switch on unitType: "px" and every other string leave the value
convertToPixels(rawValue, unitType) ==
    IF unitType = "EMU" THEN NumberTimes(rawValue, PixelsPerEmu)
    ELSE IF unitType = "DXA"
    THEN NumberTimes(NumberDividedBy(rawValue, NumberOf(20)), PixelsPerPoint)
    ELSE IF unitType = "pt" THEN NumberTimes(rawValue, PixelsPerPoint)
    ELSE IF unitType = "cm" THEN NumberTimes(rawValue, PixelsPerCm)
    ELSE IF unitType = "in" THEN NumberTimes(rawValue, NumberOf(96))
    ELSE rawValue

inferUnitFromRawValue(rawValue) ==
    IF NumberGreater(rawValue, 10000) THEN "EMU"
    ELSE IF NumberGreater(rawValue, 1000) THEN "DXA"
    ELSE "pt"

\* one declaration of a style attribute: property:value followed by a unit
\* suffix, "" when none is written
Declaration(property, value, unit) == [property |-> property, value |-> value, unit |-> unit]

\* the suffixes the pattern (pt|px|cm|in|dxa|emu)? captures
CapturedUnits == {"pt", "px", "cm", "in", "dxa", "emu"}

Dimensions(width, height) == [width |-> width, height |-> height]

\* the loop over the matches of /(?:width|height):([\d.\-]+)(pt|...|emu)?/g
\* from declaration i on; a dimension is <<>> for null
RECURSIVE extractFrom(_, _, _)
extractFrom(style, i, dimensions) ==
    IF i > Len(style) THEN dimensions
    ELSE The({extractFrom(style, i + 1,
                  IF style[i].property = "width"
                  THEN Dimensions(<<pixels>>, dimensions.height)
                  ELSE IF style[i].property = "height"
                  THEN Dimensions(dimensions.width, <<pixels>>)
                  ELSE dimensions) :
              pixels \in {convertToPixels(rawValue,
                              IF style[i].unit \in CapturedUnits THEN style[i].unit
                              ELSE inferUnitFromRawValue(rawValue)) :
                          rawValue \in {parseFloat(style[i].value)}}})

extractShapeDimensions(style) == extractFrom(style, 1, Dimensions(<<>>, <<>>))

(***************************************************************************)
(* SpecUnits: convertToPixels and extractShapeDimensions are called        *)
(***************************************************************************)
\* 0, 1, 72, 100, 240, 1440, 12700, 914400, 0.1, 1.5 and 2.54
RawNumerals ==
    {Numeral(n, 0) : n \in {0, 1, 72, 100, 240, 1440, 12700, 914400}}
    \cup {Numeral(1, 1), Numeral(15, 1), Numeral(254, 2)}

UnitTypes == {"EMU", "DXA", "pt", "cm", "in", "px", "emu", "dxa"}

\* the declarations of a v:shape style
StyleDeclarations ==
    {Declaration(property, value, unit) :
        property \in {"width", "height"},
        value \in {Numeral(914400, 0), Numeral(15, 1)},
        unit \in CapturedUnits \cup {""}}
    \cup {Declaration("position", Numeral(0, 0), "")}

\* the calls are independent of one another: each is made from the state
\* in which none has been made
ConvertToPixels ==
    /\ pixelsCall = <<>> /\ shapeCall = <<>>
    /\ \E numeral \in RawNumerals, unitType \in UnitTypes :
          \E rawValue \in {parseFloat(numeral)} :
              pixelsCall' = <<numeral, unitType, convertToPixels(rawValue, unitType)>>
    /\ UNCHANGED <<earlierReads, bulletCall, dispatchCall, shapeCall, lateVars>>
    /\ UNCHANGED <<bodyVars, tblVars, numVars, styleVars, numXmlVars, resVars>>

ExtractShapeDimensions ==
    /\ pixelsCall = <<>> /\ shapeCall = <<>>
    /\ \E style \in SeqsUpTo(StyleDeclarations, MaxDeclarations) :
          shapeCall' = <<style, extractShapeDimensions(style)>>
    /\ UNCHANGED <<earlierReads, bulletCall, dispatchCall, pixelsCall, lateVars>>
    /\ UNCHANGED <<bodyVars, tblVars, numVars, styleVars, numXmlVars, resVars>>

(***************************************************************************)
(* SpecCalls: several calls of readXmlElements on one reader returned by   *)
(* createBodyReader                                                        *)
(***************************************************************************)
\* a variant in which a call goes on with the state the last call left
newBodyReader_shared(last) == last

\* new BodyReader(options): the closure state of a call, whatever state the
\* reader of the call before ended with
newBodyReader(last) == ReaderState(<<>>, <<>>, <<>>)

\* a run that opens a hyperlink field and does not close it
OpenHyperlinkRun ==
    XmlRun(<<XmlFldChar("begin"), XmlInstrText(HyperlinkInstr), XmlFldChar("separate")>>)

\* the k-th element of a call
CallElements(k) ==
    {RunElement("t", k), RunElement("end", k), RunElement("separate", k), OpenHyperlinkRun}
    \cup {ParagraphElement(deleted, <<"t">>, k) : deleted \in BOOLEAN}

(***************************************************************************)
(* read(docxFile): the promise chain from the notes parts to the main      *)
(* document                                                                *)
(***************************************************************************)
Part(kind, index) == [kind |-> kind, index |-> index]

\* the three properties of the object returned at the footnotes step
NotesParts == {Part("footnotes", 0), Part("endnotes", 0), Part("comments", 0)}

\* partPaths.headers.map(function(path, index) ...) and the same for footers
PathsOf(kind, count) == {Part(kind, index) : index \in 1..count}

MainDocument == Part("mainDocument", 0)

\* the parts whose reads the pending step of the chain waits for
Awaited(stage, paths) ==
    IF stage = "notes" THEN NotesParts
    ELSE IF stage = "headersFooters"
    THEN PathsOf("header", paths.headers) \cup PathsOf("footer", paths.footers)
    ELSE {}

\* new createBodyReader({relationships: relationships, ...}) for a part
createBodyReader(part) == [relationshipsOf |-> part]

\* reader(bodyReader)(xml, headerFooterType, index): the Result of one part
HeaderFooterItem(part, bodyReader) ==
    [partType |-> part.kind, sectionIndex |-> part.index, reader |-> bodyReader]

\* promises.all(partPaths.map(...)): the results in the order of the
\* paths, whatever the order the reads completed in
promisesAll(kind, count, readers, completed) ==
    [index \in 1..count |-> HeaderFooterItem(Part(kind, index), readers[Part(kind, index)])]

\* a variant that puts each item before the items collected so far
RECURSIVE allItems_unshift(_)
allItems_unshift(resolved) ==
    IF resolved = <<>> THEN <<>>
    ELSE allItems_unshift(Tail(resolved)) \o <<Head(resolved)>>

\* results.forEach(function(res) { if (res.value) allItems.push(res.value) }):
\* the value of every result is a Header, a Footer or [], none of them falsy
RECURSIVE allItems(_)
allItems(resolved) ==
    IF resolved = <<>> THEN <<>>
    ELSE <<Head(resolved)>> \o allItems(Tail(resolved))

InitRead ==
    /\ partPaths = <<>>
    /\ readStage = "numbering"
    /\ partPc = <<>>
    /\ bodyReaders = <<>>
    /\ settled = <<>>
    /\ headers = <<>> /\ footers = <<>>
    /\ finalDocument = <<>>

InitLate == InitRead /\ pictCall = <<>> /\ numberingCall = <<>>

UnchangedButRead ==
    UNCHANGED <<bodyVars, tblVars, numVars, styleVars, numXmlVars, resVars,
                earlierReads, bulletCall, dispatchCall, unitVars, pictCall,
                numberingCall>>

\* the step after numbering: the reads of footnotes, endnotes and comments
\* are started together
StartNotesReads ==
    /\ readStage = "numbering"
    /\ \E headerCount \in 0..MaxPartPaths, footerCount \in 0..MaxPartPaths :
          partPaths' = <<[headers |-> headerCount, footers |-> footerCount]>>
    /\ readStage' = "notes"
    /\ partPc' = [part \in NotesParts |-> "relationships"]
    /\ UNCHANGED <<bodyReaders, settled, headers, footers, finalDocument>>
    /\ UnchangedButRead

\* readXmlFileWithBody: the relationships of a part have been read and its
\* body reader is created
ReadRelationships ==
    /\ \E part \in DOMAIN partPc :
          /\ partPc[part] = "relationships"
          /\ partPc' = [partPc EXCEPT ![part] = "xml"]
          /\ bodyReaders' = (part :> createBodyReader(part)) @@ bodyReaders
    /\ UNCHANGED <<partPaths, readStage, settled, headers, footers, finalDocument>>
    /\ UnchangedButRead

\* readXmlFileWithBody: the XML of a part other than the main document
\* has been read and func(bodyReader, xml) has returned
ReadPartXml ==
    /\ \E part \in DOMAIN partPc \ {MainDocument} :
          /\ partPc[part] = "xml"
          /\ partPc' = [partPc EXCEPT ![part] = "done"]
          /\ settled' = Append(settled, part)
    /\ UNCHANGED <<partPaths, readStage, bodyReaders, headers, footers, finalDocument>>
    /\ UnchangedButRead

\* the three notes reads have completed: notes is computed and
\* parseHeadersFooters is called for the headers and for the footers
StartHeadersFooters ==
    /\ readStage = "notes"
    /\ \A part \in NotesParts : partPc[part] = "done"
    /\ readStage' = "headersFooters"
    /\ partPc' = [part \in Awaited("headersFooters", partPaths[1]) |-> "relationships"]
                     @@ partPc
    /\ settled' = <<>>
    /\ headers' = IF partPaths[1].headers = 0 THEN <<<<>>>> ELSE <<>>
    /\ footers' = IF partPaths[1].footers = 0 THEN <<<<>>>> ELSE <<>>
    /\ UNCHANGED <<partPaths, bodyReaders, finalDocument>>
    /\ UnchangedButRead

\* the then of promises.all in parseHeadersFooters
CombineHeadersFooters ==
    /\ readStage = "headersFooters"
    /\ \E kind \in {"header", "footer"} :
          LET count == IF kind = "header" THEN partPaths[1].headers ELSE partPaths[1].footers
              items == allItems(promisesAll(kind, count, bodyReaders, settled))
          IN  /\ \A part \in PathsOf(kind, count) : partPc[part] = "done"
              /\ IF kind = "header"
                 THEN headers = <<>> /\ headers' = <<items>> /\ UNCHANGED footers
                 ELSE footers = <<>> /\ footers' = <<items>> /\ UNCHANGED headers
    /\ UNCHANGED <<partPaths, readStage, partPc, bodyReaders, settled, finalDocument>>
    /\ UnchangedButRead

\* headers and footers have resolved: readXmlFileWithBody is called for the
\* main document
StartMainDocument ==
    /\ readStage = "headersFooters"
    /\ headers # <<>> /\ footers # <<>>
    /\ readStage' = "main"
    /\ partPc' = (MainDocument :> "relationships") @@ partPc
    /\ UNCHANGED <<partPaths, bodyReaders, settled, headers, footers, finalDocument>>
    /\ UnchangedButRead

\* the XML of the main document has been read: new DocumentXmlReader({...})
\* and convertXmlToDocument(xml)
ConvertMainDocument ==
    /\ readStage = "main"
    /\ partPc[MainDocument] = "xml"
    /\ partPc' = [partPc EXCEPT ![MainDocument] = "done"]
    /\ readStage' = "done"
    /\ finalDocument' = <<[bodyReader |-> bodyReaders[MainDocument],
                           notesReaders |-> <<bodyReaders[Part("footnotes", 0)],
                                              bodyReaders[Part("endnotes", 0)]>>,
                           commentsReader |-> bodyReaders[Part("comments", 0)],
                           headers |-> headers[1],
                           footers |-> footers[1]]>>
    /\ UNCHANGED <<partPaths, bodyReaders, settled, headers, footers>>
    /\ UnchangedButRead

InitCalls ==
    /\ earlierReads = <<>> /\ bulletCall = <<>> /\ dispatchCall = <<>>
    /\ pixelsCall = <<>> /\ shapeCall = <<>>
    /\ InitLate

ReadCallElement ==
    /\ bodyPc = "reading"
    /\ Len(elements) < MaxCallElems
    /\ \E element \in CallElements(Len(elements) + 1) : ReadNext(element)
    /\ UNCHANGED <<tblVars, numVars, styleVars, otherVars>>

\* the next call on the reader, once the call before has returned or thrown
CallReadXmlElements ==
    /\ bodyPc \in {"done", "thrown"}
    /\ Len(earlierReads) + 1 < MaxCalls
    /\ LET last == ReaderState(complexFieldStack, currentInstrText,
                               deletedParagraphContents)
       IN  /\ earlierReads' = Append(earlierReads, last)
           /\ UNCHANGED <<bulletCall, dispatchCall, unitVars, lateVars>>
           /\ complexFieldStack' = newBodyReader(last).complexFieldStack
           /\ currentInstrText' = newBodyReader(last).currentInstrText
           /\ deletedParagraphContents' = newBodyReader(last).deletedParagraphContents
    /\ elements' = <<>>
    /\ results' = <<>>
    /\ readResult' = emptyResult
    /\ bodyPc' = "reading"
    /\ UNCHANGED <<tblVars, numVars, styleVars, numXmlVars, resVars>>

(***************************************************************************)
(* SpecDispatch: readXmlElement is called on one node                      *)
(***************************************************************************)
\* a text node of the XML tree
XmlTextNode(value) ==
    [type |-> "text", name |-> "", attr |-> "", text |-> value, children |-> <<>>]

\* names with a reader, names of the ignore list and other names
DispatchNames ==
    {"w:p", "w:r", "w:t", "w:tbl", "w:tr", "w:tc", "w:del", "w:instrText"}
    \cup ignoreElements \cup {"w:unknown", "x:other", "constructor", "toString"}

DispatchChildren == {<<>>, <<XmlUnknown("a1")>>, <<XmlT(<<"t">>)>>, <<XmlRun(<<>>)>>}

DispatchNodes ==
    {XmlElement(name, "", <<>>, children) :
        name \in DispatchNames, children \in DispatchChildren}
    \cup {XmlTextNode(<<"t">>)}

ReadXmlElement ==
    /\ \E node \in DispatchNodes :
          dispatchCall' = <<node, readXmlElement(node, newBodyReader(<<>>))>>
    /\ UNCHANGED <<earlierReads, bulletCall, unitVars, lateVars>>
    /\ UNCHANGED <<bodyVars, tblVars, numVars, styleVars, numXmlVars, resVars>>

(***************************************************************************)
(* SpecTree: one body reader reads sibling paragraphs and tables whose     *)
(* unknown elements and undefined styles carry names that tell them apart  *)
(***************************************************************************)
\* the names used under the k-th sibling
TreeNames == <<<<"a1", "a2", "a3">>, <<"b1", "b2", "b3">>, <<"c1", "c2", "c3">>>>

TreeChildKinds == {"none", "unknown", "nested"}

\* the k-th sibling as a paragraph: a w:pPr that may name an undefined
\* style, then nothing, an unknown element, or a styled run holding one
TreeParagraph(k, deleted, styled, child) ==
    XmlP((IF deleted \/ styled
          THEN <<XmlProperties("w:pPr", IF deleted THEN "del" ELSE "",
                     IF styled THEN <<XmlStyleRef("w:pStyle", TreeNames[k][1])>>
                     ELSE <<>>)>>
          ELSE <<>>)
         \o (IF child = "unknown" THEN <<XmlUnknown(TreeNames[k][2])>>
             ELSE IF child = "nested"
             THEN <<XmlRun(<<XmlProperties("w:rPr", "",
                                 <<XmlStyleRef("w:rStyle", TreeNames[k][2])>>),
                             XmlUnknown(TreeNames[k][3])>>)>>
             ELSE <<>>))

\* the k-th sibling as a table: a w:tblPr that may name an undefined style,
\* then nothing, an unknown element, or a row whose cell holds one
TreeTable(k, styled, child) ==
    XmlTbl((IF styled
            THEN <<XmlProperties("w:tblPr", "",
                       <<XmlStyleRef("w:tblStyle", TreeNames[k][1])>>)>>
            ELSE <<>>)
           \o (IF child = "unknown" THEN <<XmlUnknown(TreeNames[k][2])>>
               ELSE IF child = "nested"
               THEN <<XmlTr(<<XmlTc(<<XmlP(<<XmlUnknown(TreeNames[k][3])>>)>>)>>)>>
               ELSE <<>>))

ReadTreeParagraph ==
    /\ bodyPc = "reading"
    /\ Len(elements) < MaxTreeElems
    /\ \E deleted \in BOOLEAN, styled \in BOOLEAN, child \in TreeChildKinds :
          ReadNext(TreeParagraph(Len(elements) + 1, deleted, styled, child))
    /\ UNCHANGED <<tblVars, numVars, styleVars, otherVars>>

ReadTreeTable ==
    /\ bodyPc = "reading"
    /\ Len(elements) < MaxTreeElems
    /\ \E styled \in BOOLEAN, child \in TreeChildKinds :
          ReadNext(TreeTable(Len(elements) + 1, styled, child))
    /\ UNCHANGED <<tblVars, numVars, styleVars, otherVars>>

(***************************************************************************)
(* Tables: readTableCell, readTableRow, calculateRowSpans, readTable       *)
(***************************************************************************)
\* readXmlElements(element.children).flatMap(calculateRowSpans).flatMap(... Table)
readTable(childResults) ==
    LET read == combineResults(childResults)
        spans == calculateRowSpans(read.value)
    IN  ReadResult(<<Table(spans.value)>>, joinElements(read.extra, spans.extra),
                   read.messages \o spans.messages)

(***************************************************************************)
(* SpecTable: the children of one w:tbl are read, then readTable finishes  *)
(***************************************************************************)
\* the w:tc of the input: <<grid span, w:vMerge>>
CellShapes ==
    {<<1, "absent">>, <<1, "continue">>, <<2, "restart">>, <<2, "noval">>}
\* a child of a w:tr: a w:tc, or a w:p where a cell is expected
RowChildShapes == CellShapes \cup {<<0, "w:p">>}


readRowChild(shape, r, j) ==
    IF shape[2] = "w:p" THEN Paragraph(<<>>)
    ELSE readTableCell(shape[1], shape[2], Label(r, j))

\* readTableRow of the r-th child of the table
readTableRow(shapes, r) ==
    elementResult(TableRow([j \in 1..Len(shapes) |-> readRowChild(shapes[j], r, j)]))

CellsRead(childResults) ==
    LET nodes == combineResults(childResults).value
        lens == [i \in 1..Len(nodes) |-> Len(nodes[i].children)]
        sum[i \in 0..Len(nodes)] == IF i = 0 THEN 0 ELSE sum[i - 1] + lens[i]
    IN  sum[Len(nodes)]

\* the elements read so far under the w:tbl: its children and theirs
ElemsRead(childResults) == Len(childResults) + CellsRead(childResults)

InitTable ==
    /\ tblChildren = <<>>
    /\ tblResult = emptyResult
    /\ tblPc = "rows"

ReadRow ==
    /\ tblPc = "rows"
    /\ ElemsRead(tblChildren) < MaxTblElems
    /\ \E shapes \in SeqsUpTo(RowChildShapes, MaxTblElems - ElemsRead(tblChildren) - 1) :
          tblChildren' = Append(tblChildren, readTableRow(shapes, Len(tblChildren) + 1))
    /\ UNCHANGED <<tblResult, tblPc>>
    /\ UNCHANGED <<bodyVars, numVars, styleVars, otherVars>>

\* a w:p directly under the w:tbl
ReadNonRow ==
    /\ tblPc = "rows"
    /\ ElemsRead(tblChildren) < MaxTblElems
    /\ tblChildren' = Append(tblChildren, elementResult(Paragraph(<<>>)))
    /\ UNCHANGED <<tblResult, tblPc>>
    /\ UNCHANGED <<bodyVars, numVars, styleVars, otherVars>>

FinishTable ==
    /\ tblPc = "rows"
    /\ tblResult' = readTable(tblChildren)
    /\ tblPc' = "done"
    /\ UNCHANGED tblChildren
    /\ UNCHANGED <<bodyVars, numVars, styleVars, otherVars>>

(***************************************************************************)
(* Numbering: findLevel over nums, abstractNums and the numbering styles   *)
(***************************************************************************)
\* a level as readAbstractNum builds it
Level(levelIndex, numFmt) ==
    [isOrdered |-> numFmt # "bullet", format |-> numFmt, level |-> levelIndex,
     isBullet |-> numFmt = "bullet"]

\* the outcome of a call: what it returned (<<>> for null), or the error thrown
ReturnedLevel(levelInfo) == [status |-> "returned", value |-> <<levelInfo>>]
ReturnedNull == [status |-> "returned", value |-> <<>>]
ThrewError(name) == [status |-> name, value |-> <<>>]

\* styles.findNumberingStyleById
findNumberingStyleById(styles, styleId) ==
    IF styleId \in DOMAIN styles THEN <<styles[styleId]>> ELSE <<>>

\* findLevel(numId, level) entered with `depth` calls already on the stack
RECURSIVE findLevelAt(_, _, _, _, _, _)
findLevelAt(ns, abs, styles, numId, level, depth) ==
    IF depth >= MaxCallDepth THEN ThrewError("RangeError")
    ELSE IF numId \in DOMAIN ns
    THEN LET num == ns[numId]
         IN  IF num.abstractNumId \notin DOMAIN abs THEN ReturnedNull
             ELSE LET abstractNum == abs[num.abstractNumId]
                  IN  IF abstractNum.numStyleLink = Undefined
                      THEN IF level \in DOMAIN abstractNum.levels
                           THEN ReturnedLevel(abstractNum.levels[level])
                           ELSE ReturnedNull
                      ELSE LET style == findNumberingStyleById(styles,
                                                               abstractNum.numStyleLink)
                           IN  IF style = <<>>
                               THEN ThrewError("TypeError")  \* style.numId of undefined
                               ELSE findLevelAt(ns, abs, styles, style[1].numId, level,
                                                depth + 1)
    ELSE ReturnedNull

findLevel(ns, abs, styles, numId, level) == findLevelAt(ns, abs, styles, numId, level, 0)

(***************************************************************************)
(* SpecNumbering: registries drawn from bounded sets, then findLevel calls *)
(***************************************************************************)
NumIds == {"1", "2"}
AbstractNumIds == {"a", "b"}
NumberingStyleIds == {"S", "T"}
LevelIndexes == {"0"}
NumFmts == {"bullet", "decimal"}

PartialFunctions(D, R) == UNION {[S -> R] : S \in SUBSET D}

AbstractNumDefs ==
    {[levels |-> ls, numStyleLink |-> link] :
        ls \in {[l \in LS |-> Level(l, f)] : LS \in SUBSET LevelIndexes, f \in NumFmts},
        link \in NumberingStyleIds \cup {Undefined}}

\* new Numbering({}, {}) and Styles.EMPTY
IdleNumbering ==
    /\ nums = <<>>
    /\ abstractNums = <<>>
    /\ numberingStyles = <<>>
    /\ levelQuery = <<>>
    /\ levelResult = ReturnedNull
    /\ numPc = "idle"

InitNumbering ==
    /\ nums \in PartialFunctions(NumIds, [abstractNumId : AbstractNumIds])
    /\ abstractNums \in PartialFunctions(AbstractNumIds, AbstractNumDefs)
    /\ numberingStyles \in PartialFunctions(NumberingStyleIds,
                                            [numId : NumIds \cup {Undefined}])
    /\ levelQuery = <<>>
    /\ levelResult = ReturnedNull
    /\ numPc = "idle"

FindLevel ==
    /\ \E numId \in NumIds \cup {"9"}, level \in LevelIndexes \cup {"1"} :
          /\ levelQuery' = <<numId, level>>
          /\ levelResult' = findLevel(nums, abstractNums, numberingStyles, numId, level)
    /\ numPc' = "called"
    /\ UNCHANGED <<nums, abstractNums, numberingStyles>>
    /\ UNCHANGED <<bodyVars, tblVars, styleVars, otherVars>>

(***************************************************************************)
(* readNumberingXml.  A JavaScript object is the sequence of its own       *)
(* properties, [key, value] records in the order Object.keys lists them:   *)
(* the integer keys in ascending order, then the others as first assigned. *)
(***************************************************************************)
IndexKeys == <<"0", "1", "2", "3">>
IsIndexKey(k) == \E i \in DOMAIN IndexKeys : IndexKeys[i] = k
IndexKeyValue(k) == CHOOSE i \in DOMAIN IndexKeys : IndexKeys[i] = k

ObjKeys(obj) == [i \in DOMAIN obj |-> obj[i].key]
ObjValues(obj) == [i \in DOMAIN obj |-> obj[i].value]
ObjHas(obj, k) == \E i \in DOMAIN obj : obj[i].key = k
ObjGet(obj, k) == obj[CHOOSE i \in DOMAIN obj : obj[i].key = k].value

\* does the own property `key` come before the property k of an object
KeyBefore(key, k) ==
    IF IsIndexKey(key)
    THEN ~IsIndexKey(k) \/ IndexKeyValue(key) < IndexKeyValue(k)
    ELSE FALSE

\* obj[k] = v
ObjSet(obj, k, v) ==
    IF ObjHas(obj, k)
    THEN [i \in DOMAIN obj |-> IF obj[i].key = k THEN [key |-> k, value |-> v] ELSE obj[i]]
    ELSE LET after == {i \in DOMAIN obj : KeyBefore(k, obj[i].key)}
             at == IF after = {} THEN Len(obj) + 1 ELSE MinOf(after)
         IN  SubSeq(obj, 1, at - 1) \o <<[key |-> k, value |-> v]>>
             \o SubSeq(obj, at, Len(obj))

\* a w:lvl element: w:ilvl, and the optional w:numFmt, w:lvlText, w:pStyle,
\* w:tentative and w:rPr/w:rFonts (w:ascii, w:hAnsi) it holds
LvlElement(ilvl, numFmt, lvlText, pStyle, tentative, ascii, hAnsi) ==
    [ilvl |-> ilvl, numFmt |-> numFmt, lvlText |-> lvlText, pStyle |-> pStyle,
     tentative |-> tentative, ascii |-> ascii, hAnsi |-> hAnsi]

AbstractNumElement(abstractNumId, lvls, numStyleLink) ==
    [abstractNumId |-> abstractNumId, lvls |-> lvls, numStyleLink |-> numStyleLink]

\* levels[levelIndex] of readAbstractNum (justification, suffix, startValue
\* and indentation are carried by no operation modelled here)
readLevel(levelElement) ==
    LET numFmt == levelElement.numFmt
        tentative == levelElement.tentative
        isBullet == numFmt = <<"bullet">>
    IN  [isOrdered |-> numFmt # <<"bullet">>,
         format |-> numFmt,
         delimiter |-> levelElement.lvlText,
         level |-> levelElement.ilvl,
         paragraphStyleId |-> levelElement.pStyle,
         isTentative |-> tentative = <<"1">> \/ tentative = <<"true">>,
         bulletFont |-> [ascii |-> levelElement.ascii, hAnsi |-> levelElement.hAnsi],
         isBullet |-> isBullet,
         isVisibleBullet |-> /\ isBullet
                             /\ (tentative = <<>> \/ tentative = <<"">>)
                             /\ levelElement.lvlText # <<>>]

RECURSIVE readLevelsFrom(_, _, _)
readLevelsFrom(lvls, i, levels) ==
    IF i > Len(lvls) THEN levels
    ELSE readLevelsFrom(lvls, i + 1, ObjSet(levels, lvls[i].ilvl, readLevel(lvls[i])))

readAbstractNum(element) ==
    [levels |-> readLevelsFrom(element.lvls, 1, <<>>),
     numStyleLink |-> element.numStyleLink]

\* _.flatten of a list of lists
RECURSIVE FlattenLists(_)
FlattenLists(lists) ==
    IF lists = <<>> THEN <<>> ELSE Head(lists) \o FlattenLists(Tail(lists))

\* allLevels of the Numbering constructor
allLevels(abstractNumsObj) ==
    LET abstractNumValues == ObjValues(abstractNumsObj)
    IN  FlattenLists([i \in DOMAIN abstractNumValues |->
                         ObjValues(abstractNumValues[i].levels)])

\* _.indexBy(list, "paragraphStyleId") of the levels whose paragraphStyleId
\* is neither null nor undefined: result[key] = value for each, in order
RECURSIVE indexByParagraphStyleId(_, _, _)
indexByParagraphStyleId(levelList, i, index) ==
    IF i > Len(levelList) THEN index
    ELSE LET level == levelList[i]
         IN  IF level.paragraphStyleId = <<>>
             THEN indexByParagraphStyleId(levelList, i + 1, index)
             ELSE LET key == level.paragraphStyleId[1]
                  IN  indexByParagraphStyleId(levelList, i + 1,
                          [k \in DOMAIN index \cup {key} |->
                              IF k = key THEN level ELSE index[k]])

\* findLevelByParagraphStyleId: <<>> for null
findLevelByParagraphStyleId(index, styleId) ==
    IF styleId \in DOMAIN index THEN <<index[styleId]>> ELSE <<>>

(***************************************************************************)
(* SpecNumberingXml: the w:abstractNum elements of a numbering part are    *)
(* read in document order, Numbering is constructed, and levels are looked *)
(* up by paragraph style                                                   *)
(***************************************************************************)
AbstractNumIdsRead == {"0", "1", "x"}
ParagraphStyleIds == {"P", "Q"}
\* the w:lvlText of the n-th w:lvl of the part
Delimiters == <<"a", "b", "c", "d", "e", "f", "g", "h">>

LvlShapes == {<<ilvl, pStyle>> : ilvl \in {"0", "1"}, pStyle \in {<<>>, <<"P">>}}

LvlsRead(abstractNumElements) ==
    LET lens == [i \in DOMAIN abstractNumElements |-> Len(abstractNumElements[i].lvls)]
        sum[i \in 0..Len(abstractNumElements)] == IF i = 0 THEN 0 ELSE sum[i - 1] + lens[i]
    IN  sum[Len(abstractNumElements)]

NumberingElemsRead(abstractNumElements) ==
    Len(abstractNumElements) + LvlsRead(abstractNumElements)

IdleNumberingXml ==
    /\ numberingXml = <<>>
    /\ abstractNumsRead = <<>>
    /\ levelsByParagraphStyleId = <<>>
    /\ styleLevelCall = <<>>

\* readAbstractNums: abstractNums[id] = readAbstractNum(element)
ReadAbstractNumElement ==
    /\ levelsByParagraphStyleId = <<>>
    /\ NumberingElemsRead(numberingXml) < MaxNumberingElems
    /\ \E id \in AbstractNumIdsRead,
          shapes \in SeqsUpTo(LvlShapes,
                              MaxNumberingElems - NumberingElemsRead(numberingXml) - 1) :
          LET before == LvlsRead(numberingXml)
              element == AbstractNumElement(id,
                            [j \in DOMAIN shapes |->
                                LvlElement(shapes[j][1], <<"decimal">>,
                                           <<Delimiters[before + j]>>, shapes[j][2],
                                           <<>>, <<>>, <<>>)],
                            Undefined)
          IN  /\ numberingXml' = Append(numberingXml, element)
              /\ abstractNumsRead' = ObjSet(abstractNumsRead, id, readAbstractNum(element))
    /\ UNCHANGED <<levelsByParagraphStyleId, styleLevelCall>>
    /\ UNCHANGED <<bodyVars, tblVars, numVars, styleVars, resVars, callVars>>

\* new Numbering(nums, abstractNums, styles)
ConstructNumbering ==
    /\ levelsByParagraphStyleId = <<>>
    /\ levelsByParagraphStyleId' =
          <<indexByParagraphStyleId(allLevels(abstractNumsRead), 1, <<>>)>>
    /\ UNCHANGED <<numberingXml, abstractNumsRead, styleLevelCall>>
    /\ UNCHANGED <<bodyVars, tblVars, numVars, styleVars, resVars, callVars>>

FindLevelByParagraphStyleId ==
    /\ levelsByParagraphStyleId # <<>>
    /\ \E styleId \in ParagraphStyleIds :
          styleLevelCall' =
              <<styleId, findLevelByParagraphStyleId(levelsByParagraphStyleId[1], styleId)>>
    /\ UNCHANGED <<numberingXml, abstractNumsRead, levelsByParagraphStyleId>>
    /\ UNCHANGED <<bodyVars, tblVars, numVars, styleVars, resVars, callVars>>

(***************************************************************************)
(* isVisibleBulletList                                                     *)
(***************************************************************************)
ReturnedValue(value) == [status |-> "returned", value |-> <<value>>]

IsBulletFontFamily(family) == family = <<"Symbol">> \/ family = <<"Wingdings">>

\* a variant that does not look at isTentative
isVisibleBulletList_tentativeToo(ns, abs, styles, numId, level) ==
    LET found == findLevel(ns, abs, styles, numId, level)
    IN  IF found.status # "returned" THEN found
        ELSE IF found.value = <<>> THEN ReturnedValue(FALSE)
        ELSE LET levelInfo == found.value[1]
             IN  IF ~levelInfo.isBullet THEN ReturnedValue(FALSE)
                 ELSE ReturnedValue(
                          \/ levelInfo.delimiter # <<>> /\ levelInfo.delimiter # <<"">>
                          \/ IsBulletFontFamily(levelInfo.bulletFont.ascii)
                          \/ IsBulletFontFamily(levelInfo.bulletFont.hAnsi))

\* an error thrown by findLevel leaves isVisibleBulletList as thrown
isVisibleBulletList(ns, abs, styles, numId, level) ==
    LET found == findLevel(ns, abs, styles, numId, level)
    IN  IF found.status # "returned" THEN found
        ELSE IF found.value = <<>> THEN ReturnedValue(FALSE)
        ELSE LET levelInfo == found.value[1]
                 hasValidBulletText ==
                     levelInfo.delimiter # <<>> /\ levelInfo.delimiter # <<"">>
                 hasBulletFont ==
                     \/ IsBulletFontFamily(levelInfo.bulletFont.ascii)
                     \/ IsBulletFontFamily(levelInfo.bulletFont.hAnsi)
             IN  IF ~levelInfo.isBullet THEN ReturnedValue(FALSE)
                 ELSE IF levelInfo.isTentative THEN ReturnedValue(FALSE)
                 ELSE ReturnedValue(hasValidBulletText \/ hasBulletFont)

(***************************************************************************)
(* SpecBullets: a numbering part with one w:lvl, read by readAbstractNum,  *)
(* then isVisibleBulletList calls                                          *)
(***************************************************************************)
\* the w:lvl of the part: w:ilvl 0, with or without each child and attribute
BulletLvlElements ==
    {LvlElement("0", numFmt, lvlText, <<>>, tentative, ascii, hAnsi) :
        numFmt \in {<<>>, <<"bullet">>, <<"decimal">>},
        lvlText \in {<<>>, <<"">>, <<"o">>},
        tentative \in {<<>>, <<"0">>, <<"1">>, <<"true">>},
        ascii \in {<<>>, <<"Symbol">>, <<"Arial">>},
        hAnsi \in {<<>>, <<"Wingdings">>}}

\* the ways w:num 1 reaches the level: its own abstractNum holds it, or
\* links to a numbering style that names w:num 2, names w:num 1 again, or
\* is not defined
BulletLinks == {"own", "linked", "cycle", "dangling"}

InitBullets ==
    /\ \E lvl \in BulletLvlElements, link \in BulletLinks :
          /\ nums = [n \in {"1", "2"} |-> [abstractNumId |-> IF n = "1" THEN "a" ELSE "b"]]
          /\ abstractNums =
                [a \in {"a", "b"} |->
                    [levels |-> IF a = "b" \/ link = "own"
                                THEN ("0" :> readLevel(lvl)) ELSE <<>>,
                     numStyleLink |-> IF a = "b" \/ link = "own" THEN Undefined ELSE "S"]]
          /\ numberingStyles =
                IF link = "linked" THEN ("S" :> [numId |-> "2"])
                ELSE IF link = "cycle" THEN ("S" :> [numId |-> "1"])
                ELSE <<>>
    /\ levelQuery = <<>>
    /\ levelResult = ReturnedNull
    /\ numPc = "idle"

IsVisibleBulletList ==
    /\ \E numId \in {"1", "9"}, level \in {"0", "1"} :
          bulletCall' = <<numId, level,
                          isVisibleBulletList(nums, abstractNums, numberingStyles,
                                              numId, level)>>
    /\ UNCHANGED <<earlierReads, dispatchCall, unitVars, lateVars>>
    /\ UNCHANGED <<bodyVars, tblVars, numVars, styleVars, numXmlVars, resVars>>

(***************************************************************************)
(* getBulletCharacter and readNumberingProperties                          *)
(***************************************************************************)
\* the glyphs of the string literals: the bullet of numbering-xml.js, and
\* the three characters the body reader's literal holds
StandardBullet == "U+2022"
StyleBullet == "U+00E2 U+20AC U+00A2"
WingdingsBullet == ""

IsTruthyText(text) == text # <<>> /\ text # <<"">>

HasFontFamily(bulletFont, family) ==
    bulletFont.ascii = <<family>> \/ bulletFont.hAnsi = <<family>>

\* getBulletCharacter(numId, level): Null for null
getBulletCharacter(ns, abs, styles, numId, level) ==
    LET found == findLevel(ns, abs, styles, numId, level)
    IN  IF found.status # "returned" THEN found
        ELSE IF found.value = <<>> THEN ReturnedValue(Null)
        ELSE LET levelInfo == found.value[1]
             IN  IF ~levelInfo.isBullet THEN ReturnedValue(Null)
                 ELSE IF IsTruthyText(levelInfo.delimiter)
                 THEN ReturnedValue(levelInfo.delimiter[1])
                 ELSE IF HasFontFamily(levelInfo.bulletFont, "Symbol")
                 THEN ReturnedValue(StandardBullet)
                 ELSE IF HasFontFamily(levelInfo.bulletFont, "Wingdings")
                 THEN ReturnedValue(WingdingsBullet)
                 ELSE ReturnedValue(StandardBullet)

\* Object.assign({}, levelInfo, {...}): the level, and the properties added
NumberingProperties(levelInfo, numId, visible, character) ==
    [level |-> levelInfo, numId |-> numId, isVisibleBulletList |-> visible,
     bulletCharacter |-> character]

\* readNumberingProperties(styleId, element, numbering): ilvl and numId are
\* the w:val of the w:ilvl and the w:numId of the element, <<>> when
\* undefined; the value returned is <<>> for null
readNumberingProperties(styleId, ilvl, numId, ns, abs, styles, index) ==
    IF ilvl # <<>> /\ numId # <<>>
    THEN LET found == findLevel(ns, abs, styles, numId[1], ilvl[1])
             visible == isVisibleBulletList(ns, abs, styles, numId[1], ilvl[1])
             character == getBulletCharacter(ns, abs, styles, numId[1], ilvl[1])
         IN  IF found.status # "returned" THEN found
             ELSE IF found.value = <<>> THEN ReturnedValue(<<>>)
             ELSE IF visible.status # "returned" THEN visible
             ELSE IF character.status # "returned" THEN character
             ELSE ReturnedValue(<<NumberingProperties(found.value[1], numId,
                                                      visible.value[1],
                                                      character.value[1])>>)
    ELSE IF styleId # Null /\ findLevelByParagraphStyleId(index, styleId) # <<>>
    THEN LET levelByStyleId == findLevelByParagraphStyleId(index, styleId)[1]
         IN  ReturnedValue(<<NumberingProperties(
                 levelByStyleId, <<>>,
                 levelByStyleId.isBullet /\ ~levelByStyleId.isTentative,
                 IF levelByStyleId.isBullet
                 THEN (IF IsTruthyText(levelByStyleId.delimiter)
                       THEN levelByStyleId.delimiter[1] ELSE StyleBullet)
                 ELSE Null)>>)
    ELSE ReturnedValue(<<>>)

(***************************************************************************)
(* SpecNumberingProperties: a numbering part with one w:lvl that may name  *)
(* a paragraph style, then readNumberingProperties calls                   *)
(***************************************************************************)
StyledLvlElements ==
    {LvlElement("0", numFmt, lvlText, pStyle, tentative, ascii, hAnsi) :
        numFmt \in {<<>>, <<"bullet">>, <<"decimal">>},
        lvlText \in {<<>>, <<"">>, <<"o">>},
        pStyle \in {<<>>, <<"P">>},
        tentative \in {<<>>, <<"1">>},
        ascii \in {<<>>, <<"Symbol">>},
        hAnsi \in {<<>>, <<"Wingdings">>}}

\* the Numbering constructed over w:num 1, whose abstractNum holds the level
\* or links to a numbering style that names w:num 2, which holds it
InitStyledBullets ==
    /\ \E lvl \in StyledLvlElements, link \in {"own", "linked"} :
          /\ nums = [n \in {"1", "2"} |-> [abstractNumId |-> IF n = "1" THEN "a" ELSE "b"]]
          /\ abstractNums =
                [a \in {"a", "b"} |->
                    [levels |-> IF a = "b" \/ link = "own"
                                THEN ("0" :> readLevel(lvl)) ELSE <<>>,
                     numStyleLink |-> IF a = "b" \/ link = "own" THEN Undefined ELSE "S"]]
          /\ numberingStyles = IF link = "linked" THEN ("S" :> [numId |-> "2"]) ELSE <<>>
          /\ levelsByParagraphStyleId =
                <<indexByParagraphStyleId(
                      IF link = "own" THEN <<readLevel(lvl), readLevel(lvl)>>
                      ELSE <<readLevel(lvl)>>, 1, <<>>)>>
    /\ levelQuery = <<>>
    /\ levelResult = ReturnedNull
    /\ numPc = "idle"
    /\ numberingXml = <<>>
    /\ abstractNumsRead = <<>>
    /\ styleLevelCall = <<>>

ReadNumberingProperties ==
    /\ numberingCall = <<>>
    /\ levelsByParagraphStyleId # <<>>
    /\ \E styleId \in {Null, "P", "Q"}, ilvl \in {<<>>, <<"0">>, <<"1">>},
          numId \in {<<>>, <<"1">>, <<"9">>} :
          numberingCall' =
              <<styleId, ilvl, numId,
                readNumberingProperties(styleId, ilvl, numId, nums, abstractNums,
                                        numberingStyles, levelsByParagraphStyleId[1])>>
    /\ UNCHANGED <<earlierReads, bulletCall, dispatchCall, unitVars, docVars, pictCall>>
    /\ UNCHANGED <<bodyVars, tblVars, numVars, styleVars, numXmlVars, resVars>>

(***************************************************************************)
(* Styles reader.  An optional value is a sequence: <<>> when the element  *)
(* or attribute is missing (a property: undefined), <<v>> when it is v.    *)
(***************************************************************************)
PropertyNames ==
    {"fontSize", "color", "font", "bold", "italic", "underline", "strike",
     "isAllCaps", "isSmallCaps", "spacing", "alignment", "indent", "numbering"}

NoProperties == [p \in PropertyNames |-> <<>>]

\* the content of a w:style: its w:basedOn, the children of its w:rPr and of
\* its w:pPr (a toggle such as w:b holds its w:val, "" when it has none)
StyleElement(styleId, type, basedOn, rPr, pPr) ==
    [styleId |-> styleId, type |-> type, name |-> styleId, basedOn |-> basedOn,
     rPr |-> rPr, pPr |-> pPr]

findParagraphStyleById(styles, styleId) == Lookup(styles.paragraph, styleId)
findCharacterStyleById(styles, styleId) == Lookup(styles.character, styleId)
findTableStyleById(styles, styleId) == Lookup(styles.table, styleId)

\* styles.paragraph[styleId] || styles.character[styleId] || styles.table[styleId] || null
findStyleById(styleId, styles) ==
    IF styleId \in DOMAIN styles.paragraph THEN <<styles.paragraph[styleId]>>
    ELSE IF styleId \in DOMAIN styles.character THEN <<styles.character[styleId]>>
    ELSE IF styleId \in DOMAIN styles.table THEN <<styles.table[styleId]>>
    ELSE <<>>

\* element && val !== "false" && val !== "0" ? true : undefined
toggleProperty(el) == IF el # <<>> /\ el[1] # "false" /\ el[1] # "0" THEN <<TRUE>> ELSE <<>>
\* the same for w:u, whose off values are "none" and "0"
underlineProperty(el) == IF el # <<>> /\ el[1] # "none" /\ el[1] # "0" THEN <<TRUE>> ELSE <<>>

\* w:sz is in half points
fontSizeOf(sz) == sz \div 2

\* readNumberingStyleElement: the w:numId under w:pPr/w:numPr
readNumberingStyleElement(styleElement) ==
    IF styleElement.pPr = <<>> THEN <<>> ELSE styleElement.pPr[1].numId

\* properties.numbering is set when the style itself names a numId
applyNumbering(properties, styleElement) ==
    IF readNumberingStyleElement(styleElement) # <<>>
    THEN [properties EXCEPT !["numbering"] = readNumberingStyleElement(styleElement)]
    ELSE properties

\* the run properties block of extractStyleProperties
applyRunProperties(properties, rPr) ==
    IF rPr = <<>> THEN properties
    ELSE LET r == rPr[1]
         IN  [properties EXCEPT
                 !["fontSize"] = IF r.sz # <<>> THEN <<fontSizeOf(r.sz[1])>> ELSE @,
                 !["color"] = IF r.color # <<>> THEN r.color ELSE @,
                 !["underline"] = underlineProperty(r.u),
                 !["bold"] = toggleProperty(r.b),
                 !["italic"] = toggleProperty(r.i),
                 !["strike"] = toggleProperty(r.strike),
                 !["isAllCaps"] = toggleProperty(r.caps),
                 !["isSmallCaps"] = toggleProperty(r.smallCaps),
                 !["font"] = IF r.rFonts # <<>> THEN r.rFonts ELSE @]

\* the paragraph properties block of extractStyleProperties
applyParagraphProperties(properties, pPr) ==
    IF pPr = <<>> THEN properties
    ELSE LET q == pPr[1]
         IN  [properties EXCEPT
                 !["spacing"] = IF q.spacing # <<>> THEN q.spacing ELSE @,
                 !["alignment"] = IF q.jc # <<>> THEN q.jc ELSE @,
                 !["indent"] = IF q.ind # <<>> THEN q.ind ELSE @]

\* for (key in baseProperties) if (properties[key] === undefined) properties[key] = ...
mergeBaseProperties(properties, baseProperties) ==
    [p \in PropertyNames |-> IF properties[p] = <<>> THEN baseProperties[p] ELSE properties[p]]

ReturnedProperties(properties) == [status |-> "returned", properties |-> properties]
RangeError == [status |-> "RangeError", properties |-> NoProperties]

\* extractStyleProperties(styleElement, styles) entered with `depth` calls on the stack
RECURSIVE extractStylePropertiesAt(_, _, _)
extractStylePropertiesAt(styleElement, styles, depth) ==
    IF depth >= MaxCallDepth THEN RangeError
    ELSE LET baseStyle == IF styleElement.basedOn = <<>> THEN <<>>
                          ELSE findStyleById(styleElement.basedOn[1], styles)
             base == IF baseStyle = <<>> THEN ReturnedProperties(NoProperties)
                     ELSE extractStylePropertiesAt(baseStyle[1], styles, depth + 1)
         IN  IF base.status # "returned" THEN base
             ELSE ReturnedProperties(
                      applyParagraphProperties(
                          applyRunProperties(
                              applyNumbering(
                                  mergeBaseProperties(NoProperties, base.properties),
                                  styleElement),
                              styleElement.rPr),
                          styleElement.pPr))

extractStyleProperties(styleElement, styles) ==
    extractStylePropertiesAt(styleElement, styles, 0)

\* styleSet[style.styleId] = style, for the set of the style's type if there is one
registerStyle(styles, styleElement) ==
    IF styleElement.type \in DOMAIN styles
    THEN [styles EXCEPT ![styleElement.type] =
             [id \in DOMAIN @ \cup {styleElement.styleId} |->
                 IF id = styleElement.styleId THEN styleElement ELSE @[id]]]
    ELSE styles

(***************************************************************************)
(* SpecStyles: readStylesXml reads the w:style elements of a styles part   *)
(***************************************************************************)
StyleIds == {"A", "B", "C"}

RunProperties(sz, color, rFonts, toggles, u) ==
    [sz |-> sz, color |-> color, rFonts |-> rFonts, b |-> toggles, i |-> toggles,
     strike |-> toggles, caps |-> toggles, smallCaps |-> toggles, u |-> u]
ParagraphProperties(spacing, jc, ind, numId) ==
    [spacing |-> spacing, jc |-> jc, ind |-> ind, numId |-> numId]

\* the <<w:rPr, w:pPr>> a style of the input may hold
StyleBodies ==
    { <<<<>>, <<>>>>,
      <<<<RunProperties(<<24>>, <<"FF0000">>, <<"Arial">>, <<"">>, <<"single">>)>>,
        <<ParagraphProperties(<<"240">>, <<"center">>, <<"720">>, <<"1">>)>>>>,
      <<<<RunProperties(<<28>>, <<>>, <<>>, <<>>, <<>>)>>, <<>>>>,
      <<<<>>, <<ParagraphProperties(<<>>, <<"left">>, <<>>, <<>>)>>>> }

StyleElements ==
    {StyleElement(id, "paragraph", basedOn, body[1], body[2]) :
        id \in StyleIds, basedOn \in {<<>>} \cup {<<b>> : b \in StyleIds},
        body \in StyleBodies}
    \cup
    {StyleElement("A", type, <<"B">>, <<>>, <<ParagraphProperties(<<>>, <<>>, <<>>, <<"2">>)>>) :
        type \in {"character", "numbering"}}

\* defaultStyles
InitStyles ==
    /\ styleSets = StylesEMPTY
    /\ customStyles = <<>>
    /\ styleOrder = <<>>
    /\ stylesPc = "reading"
    /\ styleRead = <<>>

\* one iteration of root.getElementsByTagName("w:style").forEach
ReadStyleElement ==
    /\ stylesPc = "reading"
    /\ Len(styleOrder) < MaxStyles
    /\ \E styleElement \in StyleElements :
          LET registered == registerStyle(styleSets, styleElement)
              extracted == extractStyleProperties(styleElement, registered)
          IN  /\ styleSets' = registered
              /\ numberingStyles' =
                    IF styleElement.type = "numbering"
                    THEN [id \in DOMAIN numberingStyles \cup {styleElement.styleId} |->
                             IF id = styleElement.styleId
                             THEN [numId |-> IF readNumberingStyleElement(styleElement) = <<>>
                                             THEN Undefined
                                             ELSE readNumberingStyleElement(styleElement)[1]]
                             ELSE numberingStyles[id]]
                    ELSE numberingStyles
              /\ styleOrder' = Append(styleOrder, styleElement.styleId)
              /\ IF extracted.status = "returned"
                 THEN /\ customStyles' =
                            [id \in DOMAIN customStyles \cup {styleElement.styleId} |->
                                IF id = styleElement.styleId
                                THEN [name |-> styleElement.name, type |-> styleElement.type,
                                      properties |-> extracted.properties]
                                ELSE customStyles[id]]
                      /\ UNCHANGED stylesPc
                 ELSE /\ stylesPc' = "thrown"
                      /\ UNCHANGED customStyles
    /\ UNCHANGED <<styleRead, nums, abstractNums, levelQuery, levelResult, numPc>>
    /\ UNCHANGED <<bodyVars, tblVars, otherVars>>

(***************************************************************************)
(* SpecReadStyle: a registry drawn from bounded sets, then readStyle calls *)
(***************************************************************************)
ReferencedIds == {"A", "B"}
StyleNames == {Null, "Heading 1"}
\* what a properties block may hold as its style reference
StyleReferences == {<<>>, <<<<>>>>} \cup {<<<<v>>>> : v \in ReferencedIds \cup {"", "Z"}}

InitReadStyle ==
    /\ styleSets \in {Styles(ps, cs, ts) :
                         ps \in PartialFunctions(ReferencedIds, [name : StyleNames]),
                         cs \in PartialFunctions(ReferencedIds, [name : StyleNames]),
                         ts \in PartialFunctions({"A"}, [name : StyleNames])}
    /\ customStyles = <<>>
    /\ styleOrder = <<>>
    /\ stylesPc = "reading"
    /\ styleRead = <<>>

ReadParagraphStyle ==
    /\ \E ref \in StyleReferences :
          styleRead' = <<"Paragraph", ref, readParagraphStyle(ref, styleSets)>>
    /\ UNCHANGED <<styleSets, customStyles, styleOrder, stylesPc>>
    /\ UNCHANGED <<bodyVars, tblVars, numVars, otherVars>>

ReadRunStyle ==
    /\ \E ref \in StyleReferences :
          styleRead' = <<"Run", ref, readRunStyle(ref, styleSets)>>
    /\ UNCHANGED <<styleSets, customStyles, styleOrder, stylesPc>>
    /\ UNCHANGED <<bodyVars, tblVars, numVars, otherVars>>

ReadTableStyle ==
    /\ \E ref \in StyleReferences :
          styleRead' = <<"Table", ref, readTableStyle(ref, styleSets)>>
    /\ UNCHANGED <<styleSets, customStyles, styleOrder, stylesPc>>
    /\ UNCHANGED <<bodyVars, tblVars, numVars, otherVars>>

(***************************************************************************)
(* SpecResults: three ReadResults are built, then the ReadResult           *)
(* operations are applied to them                                          *)
(***************************************************************************)
\* the functions handed to map: one builds a Run around the children, one
\* returns null
RunOf(children) == <<Run(children)>>
NoValue(children) == <<>>
\* the functions handed to flatMap: one returns a node and a warning, one
\* sends the children to the extra channel with a warning
FlatMapWarning == undefinedStyleWarning("Table", "Z")
RunWithWarning(children) == elementResultWithMessages(Run(children), <<FlatMapWarning>>)
ExtraWithWarning(children) == ReadResult(<<>>, children, <<FlatMapWarning>>)

ResultNodes == {Text(Label(1, 1)), Text(Label(1, 2))}
ResultExtras == {Text(Label(2, 1))}
ResultMessages == {undefinedStyleWarning("Run", "A"), undefinedStyleWarning("Paragraph", "B")}

ResultElems(rs) ==
    LET size(r) == Len(r.value) + Len(r.extra) + Len(r.messages)
    IN  size(rs[1]) + size(rs[2]) + size(rs[3])

InitResults ==
    /\ resultArgs = <<emptyResult, emptyResult, emptyResult>>
    /\ resultCall = <<>>

\* new ReadResult(value, extra, messages) with one more element, extra or message
BuildResult ==
    /\ ResultElems(resultArgs) < MaxResultElems
    /\ \E i \in 1..3 :
          \/ \E n \in ResultNodes :
                resultArgs' = [resultArgs EXCEPT ![i].value = Append(@, n)]
          \/ \E n \in ResultExtras :
                resultArgs' = [resultArgs EXCEPT ![i].extra = Append(@, n)]
          \/ \E m \in ResultMessages :
                resultArgs' = [resultArgs EXCEPT ![i].messages = Append(@, m)]
    /\ resultCall' = <<>>
    /\ UNCHANGED <<bodyVars, tblVars, numVars, styleVars, numXmlVars, callVars>>

\* combineResults over the three results, flat and in both groupings
CombineResults ==
    /\ resultCall' =
          <<"combineResults",
            combineResults(resultArgs),
            combineResults(<<combineResults(<<resultArgs[1], resultArgs[2]>>), resultArgs[3]>>),
            combineResults(<<resultArgs[1], combineResults(<<resultArgs[2], resultArgs[3]>>)>>)>>
    /\ UNCHANGED resultArgs
    /\ UNCHANGED <<bodyVars, tblVars, numVars, styleVars, numXmlVars, callVars>>

MapResult ==
    /\ \/ resultCall' = <<"map", "RunOf", ReadResultMap(resultArgs[1], RunOf(resultArgs[1].value))>>
       \/ resultCall' = <<"map", "NoValue", ReadResultMap(resultArgs[1], NoValue(resultArgs[1].value))>>
    /\ UNCHANGED resultArgs
    /\ UNCHANGED <<bodyVars, tblVars, numVars, styleVars, numXmlVars, callVars>>

FlatMapResult ==
    /\ \/ resultCall' = <<"flatMap", "RunWithWarning",
                          ReadResultFlatMap(resultArgs[1], RunWithWarning(resultArgs[1].value))>>
       \/ resultCall' = <<"flatMap", "ExtraWithWarning",
                          ReadResultFlatMap(resultArgs[1], ExtraWithWarning(resultArgs[1].value))>>
    /\ UNCHANGED resultArgs
    /\ UNCHANGED <<bodyVars, tblVars, numVars, styleVars, numXmlVars, callVars>>

\* ReadResult.map(first, second, func)
MapTwoResults ==
    /\ resultCall' = <<"ReadResult.map", "Paragraph",
                       ReadResultMap2(resultArgs[1], resultArgs[2],
                                      Paragraph(resultArgs[2].value))>>
    /\ UNCHANGED resultArgs
    /\ UNCHANGED <<bodyVars, tblVars, numVars, styleVars, numXmlVars, callVars>>

ToExtra ==
    /\ resultCall' = <<"toExtra", "", toExtra(resultArgs[1])>>
    /\ UNCHANGED resultArgs
    /\ UNCHANGED <<bodyVars, tblVars, numVars, styleVars, numXmlVars, callVars>>

InsertExtra ==
    /\ resultCall' = <<"insertExtra", "", insertExtra(resultArgs[1])>>
    /\ UNCHANGED resultArgs
    /\ UNCHANGED <<bodyVars, tblVars, numVars, styleVars, numXmlVars, callVars>>

(***************************************************************************)
(* SpecExtra: toExtra and insertExtra are applied to a ReadResult, or a    *)
(* paragraph whose runs hold w:pict elements is read                       *)
(***************************************************************************)
\* the k-th run of the paragraph: a text, a w:pict holding a run with a
\* text, a w:pict between two texts, or a w:pict holding an unknown element
\* and a run
PictRunKinds == {"t", "pict", "t-pict-t", "pict-unknown"}

PictRun(kind, k) ==
    IF kind = "t" THEN XmlRun(<<XmlT(Label(k, 1))>>)
    ELSE IF kind = "pict" THEN XmlRun(<<XmlPict(<<XmlRun(<<XmlT(Label(k, 1))>>)>>)>>)
    ELSE IF kind = "t-pict-t"
    THEN XmlRun(<<XmlT(Label(k, 1)), XmlPict(<<XmlRun(<<XmlT(Label(k, 2))>>)>>),
                  XmlT(Label(k, 3))>>)
    ELSE XmlRun(<<XmlPict(<<XmlUnknown(TreeNames[k][1]), XmlRun(<<XmlT(Label(k, 2))>>)>>)>>)

PictParagraphs ==
    {XmlP([k \in 1..Len(kinds) |-> PictRun(kinds[k], k)]) :
        kinds \in SeqsUpTo(PictRunKinds, MaxPictRuns)}

\* the ReadResult operations of this specification are applied before any
\* paragraph is read
ResultOperation ==
    /\ pictCall = <<>>
    /\ (BuildResult \/ ToExtra \/ InsertExtra)

ReadPictParagraph ==
    /\ pictCall = <<>>
    /\ resultCall = <<>> /\ resultArgs = <<emptyResult, emptyResult, emptyResult>>
    /\ \E paragraph \in PictParagraphs :
          pictCall' = <<paragraph, readXmlElement(paragraph, newBodyReader(<<>>))>>
    /\ UNCHANGED <<bodyVars, tblVars, numVars, styleVars, numXmlVars, resVars,
                   earlierReads, bulletCall, dispatchCall, unitVars, docVars,
                   numberingCall>>

(***************************************************************************)
(* The specifications                                                      *)
(***************************************************************************)
IdleOther == IdleNumberingXml /\ InitResults /\ InitCalls
Init == InitBody /\ InitTable /\ IdleNumbering /\ InitStyles /\ IdleOther
InitWithNumbering == InitBody /\ InitTable /\ InitNumbering /\ InitStyles /\ IdleOther
InitWithBullets == InitBody /\ InitTable /\ InitBullets /\ InitStyles /\ IdleOther
InitWithStyledBullets ==
    InitBody /\ InitTable /\ InitStyledBullets /\ InitStyles /\ InitResults /\ InitCalls
InitWithStyles == InitBody /\ InitTable /\ IdleNumbering /\ InitReadStyle /\ IdleOther

NextBody == ReadRunElement \/ ReadParagraphElement \/ FinishRead
SpecBody == Init /\ [][NextBody]_vars

NextTree == ReadTreeParagraph \/ ReadTreeTable \/ FinishRead
SpecTree == Init /\ [][NextTree]_vars

NextCalls == ReadCallElement \/ FinishRead \/ CallReadXmlElements
SpecCalls == Init /\ [][NextCalls]_vars

NextBullets == IsVisibleBulletList
SpecBullets == InitWithBullets /\ [][NextBullets]_vars

NextDispatch == ReadXmlElement
SpecDispatch == Init /\ [][NextDispatch]_vars

NextUnits == ConvertToPixels \/ ExtractShapeDimensions
SpecUnits == Init /\ [][NextUnits]_vars

NextRead ==
    \/ StartNotesReads \/ ReadRelationships \/ ReadPartXml \/ StartHeadersFooters
    \/ CombineHeadersFooters \/ StartMainDocument \/ ConvertMainDocument
SpecRead == Init /\ [][NextRead]_vars

NextFields == ReadFieldRun \/ FinishRead
SpecFields == Init /\ [][NextFields]_vars

NextExtra == ResultOperation \/ ReadPictParagraph
SpecExtra == Init /\ [][NextExtra]_vars

NextNumberingProperties == ReadNumberingProperties
SpecNumberingProperties == InitWithStyledBullets /\ [][NextNumberingProperties]_vars

NextTable == ReadRow \/ ReadNonRow \/ FinishTable
SpecTable == Init /\ [][NextTable]_vars

NextNumbering == FindLevel
SpecNumbering == InitWithNumbering /\ [][NextNumbering]_vars

NextStyles == ReadStyleElement
SpecStyles == Init /\ [][NextStyles]_vars

NextReadStyle == ReadParagraphStyle \/ ReadRunStyle \/ ReadTableStyle
SpecReadStyle == InitWithStyles /\ [][NextReadStyle]_vars

NextNumberingXml == ReadAbstractNumElement \/ ConstructNumbering \/ FindLevelByParagraphStyleId
SpecNumberingXml == Init /\ [][NextNumberingXml]_vars

NextResults ==
    \/ BuildResult \/ CombineResults \/ MapResult \/ FlatMapResult
    \/ MapTwoResults \/ ToExtra \/ InsertExtra
SpecResults == Init /\ [][NextResults]_vars

Next ==
    \/ NextBody \/ NextTable \/ NextNumbering \/ NextStyles \/ NextReadStyle
    \/ NextNumberingXml \/ NextResults \/ NextTree \/ NextCalls \/ NextBullets \/ NextDispatch \/ NextUnits
    \/ NextRead \/ NextFields \/ NextExtra
Spec == Init /\ [][Next]_vars

(***************************************************************************)
(* Properties of the body reader                                           *)
(***************************************************************************)
\* the labels of the w:t elements under a sequence of XML elements, in order
RECURSIVE XmlTexts(_)
XmlTexts(elems) ==
    IF elems = <<>> THEN <<>>
    ELSE (IF Head(elems).name = "w:t" THEN <<Head(elems).text>>
          ELSE XmlTexts(Head(elems).children))
         \o XmlTexts(Tail(elems))

\* the values of the Text nodes under a sequence of document nodes, in order
RECURSIVE NodeTexts(_)
NodeTexts(nodes) ==
    IF nodes = <<>> THEN <<>>
    ELSE (IF Head(nodes).type = "text" THEN <<Head(nodes).val>>
          ELSE NodeTexts(Head(nodes).children))
         \o NodeTexts(Tail(nodes))

\* the number of nodes of a type under a sequence of document nodes
RECURSIVE CountNodes(_, _)
CountNodes(nodes, type) ==
    IF nodes = <<>> THEN 0
    ELSE (IF Head(nodes).type = type THEN 1 ELSE 0)
         + CountNodes(Head(nodes).children, type) + CountNodes(Tail(nodes), type)

Occurrences(seq, x) == Cardinality({i \in 1..Len(seq) : seq[i] = x})

IsParagraphAt(i) == elements[i].name = "w:p"
IsDeletedAt(i) ==
    /\ IsParagraphAt(i)
    /\ Len(elements[i].children) > 0
    /\ elements[i].children[1] = XmlPPr("del")
IsLiveParagraphAt(i) == IsParagraphAt(i) /\ ~IsDeletedAt(i)

\* the deleted paragraphs before sibling i with no live paragraph in between
PendingBefore(i) ==
    {j \in 1..(i - 1) : IsDeletedAt(j) /\ \A k \in (j + 1)..(i - 1) : ~IsLiveParagraphAt(k)}

\* the texts of those paragraphs, in document order
RECURSIVE PendingTexts(_, _)
PendingTexts(i, j) ==
    IF j >= i THEN <<>>
    ELSE (IF j \in PendingBefore(i) THEN XmlTexts(elements[j].children) ELSE <<>>)
         \o PendingTexts(i, j + 1)

IsPrefix(p, seq) == Len(p) <= Len(seq) /\ SubSeq(seq, 1, Len(p)) = p

DeletedThenLive ==
    <<ParagraphElement(TRUE, <<"t">>, 1), ParagraphElement(FALSE, <<"t">>, 2)>>

\* C1: a paragraph whose mark is deleted yields no node at all, and the next
\* live paragraph read yields one Paragraph whose children start with the
\* nodes of the pending deleted paragraphs, in document order, followed by
\* its own; [delPara(A), normalPara(B)] reads as one paragraph [A, B].
C1_DeletedFoldsIntoNext ==
    /\ \A i \in 1..Len(results) :
          /\ IsDeletedAt(i) => results[i].value = <<>>
          /\ IsLiveParagraphAt(i) =>
                /\ Len(results[i].value) = 1
                /\ results[i].value[1].type = "paragraph"
                /\ IsPrefix(PendingTexts(i, 1), NodeTexts(results[i].value))
                /\ NodeTexts(results[i].value)
                      = PendingTexts(i, 1) \o XmlTexts(elements[i].children)
    /\ (bodyPc = "done" /\ elements = DeletedThenLive) =>
          readResult.value =
              <<Paragraph(<<Run(<<Text(Label(1, 1))>>), Run(<<Text(Label(2, 1))>>)>>)>>

\* C1 witness: a live paragraph with text was read right after a deleted
\* paragraph with text, and the read completed
C1_Witness ==
    /\ bodyPc = "done"
    /\ \E i \in 2..Len(elements) :
          /\ IsLiveParagraphAt(i) /\ IsDeletedAt(i - 1)
          /\ XmlTexts(elements[i - 1].children) # <<>>
          /\ XmlTexts(elements[i].children) # <<>>

\* C2: when the read completes, the buffer of deleted paragraph content is
\* empty and every text of every deleted paragraph is in the output exactly
\* once, whatever the position of the deleted paragraph.
C2_DeletedContentNeverLost ==
    bodyPc = "done" =>
        /\ deletedParagraphContents = <<>>
        /\ \A i \in 1..Len(elements) : IsDeletedAt(i) =>
              \A k \in 1..Len(XmlTexts(elements[i].children)) :
                  Occurrences(NodeTexts(readResult.value),
                              XmlTexts(elements[i].children)[k]) = 1

IsFldCharRun(e, type) == e = XmlRun(<<XmlFldChar(type)>>)
IsTextRun(e) == e.name = "w:r" /\ Len(e.children) = 1 /\ e.children[1].name = "w:t"

\* begin, instrText HYPERLINK "http://x", separate, one or more text runs, end
IsHyperlinkField(elems) ==
    /\ Len(elems) >= 5
    /\ IsFldCharRun(elems[1], "begin")
    /\ elems[2] = XmlRun(<<XmlInstrText(HyperlinkInstr)>>)
    /\ IsFldCharRun(elems[3], "separate")
    /\ \A k \in 4..(Len(elems) - 1) : IsTextRun(elems[k])
    /\ IsFldCharRun(elems[Len(elems)], "end")

HrefX == <<"href", "http://x">>

\* C3 as stated: the field yields exactly one Hyperlink node
C3_SingleHyperlinkNode ==
    (bodyPc = "done" /\ IsHyperlinkField(elements)) =>
        CountNodes(readResult.value, "hyperlink") = 1

\* C3 as amended: every run read from the separate marker up to the end
\* marker gets its own Hyperlink with href "http://x" around its children,
\* inside the Run: the run of the separate marker holds an empty Hyperlink,
\* each inner run holds a Hyperlink around its text; the runs of begin, of
\* the instruction text and of end are not wrapped.
C3_HyperlinkPerRun ==
    (bodyPc = "done" /\ IsHyperlinkField(elements)) =>
        readResult.value =
            [k \in 1..Len(elements) |->
                IF k = 3 THEN Run(<<Hyperlink(<<>>, HrefX)>>)
                ELSE IF k > 3 /\ k < Len(elements)
                THEN Run(<<Hyperlink(<<Text(Label(k, 1))>>, HrefX)>>)
                ELSE Run(<<>>)]

\* C3 witness: the whole field was read
C3_Witness == bodyPc = "done" /\ IsHyperlinkField(elements)

(***************************************************************************)
(* Properties of calculateRowSpans                                         *)
(***************************************************************************)
\* the nodes read from the children of the table, before calculateRowSpans
RowsRead == combineResults(tblChildren).value

WellFormedTable == ~unexpectedNonRows(RowsRead) /\ ~unexpectedNonCells(RowsRead)

CellPositions(rows) == {<<r, j>> : r \in 1..Len(rows), j \in 1..MaxTblElems}
CellsOfTable(rows) == {p \in CellPositions(rows) : p[2] <= Len(rows[p[1]].children)}
CellAt(rows, p) == rows[p[1]].children[p[2]]

\* the column cursor of a cell: the colSpans of the cells before it in its row
RECURSIVE ColumnCursor(_, _, _)
ColumnCursor(rows, r, j) ==
    IF j = 1 THEN 0 ELSE ColumnCursor(rows, r, j - 1) + rows[r].children[j - 1].colSpan

Before(p, q) == p[1] < q[1] \/ (p[1] = q[1] /\ p[2] < q[2])

IsContinue(rows, p) == CellAt(rows, p).vMerge = "true"

\* a continue cell is merged when some earlier cell started at its column
IsMergedCell(rows, p) ==
    /\ IsContinue(rows, p)
    /\ \E q \in CellsOfTable(rows) :
          Before(q, p) /\ ColumnCursor(rows, q[1], q[2]) = ColumnCursor(rows, p[1], p[2])

\* the owner of a merged cell: the last kept cell before it at its column
OwnerOf(rows, p) ==
    LET candidates == {q \in CellsOfTable(rows) :
                          /\ Before(q, p) /\ ~IsMergedCell(rows, q)
                          /\ ColumnCursor(rows, q[1], q[2]) = ColumnCursor(rows, p[1], p[2])}
    IN  CHOOSE q \in candidates : \A q2 \in candidates : ~Before(q, q2)

OwnedBy(rows, q) == {p \in CellsOfTable(rows) : IsMergedCell(rows, p) /\ OwnerOf(rows, p) = q}

\* a kept cell as it leaves calculateRowSpans
MergedCell(rows, q) ==
    [CellAt(rows, q) EXCEPT !.rowSpan = 1 + Cardinality(OwnedBy(rows, q)), !.vMerge = "absent"]

KeptIn(rows, r) == {j \in 1..Len(rows[r].children) : ~IsMergedCell(rows, <<r, j>>)}

\* the j-th smallest element of a set of numbers
RECURSIVE NthOf(_, _)
NthOf(S, n) == IF n = 1 THEN MinOf(S) ELSE NthOf(S \ {MinOf(S)}, n - 1)

ExpectedRow(rows, r) ==
    LET kept == KeptIn(rows, r)
    IN  [rows[r] EXCEPT !.children =
            [n \in 1..Cardinality(kept) |-> MergedCell(rows, <<r, NthOf(kept, n)>>)]]

TableRows == tblResult.value[1].children

\* C4 as stated: every cell marked continue is removed from its row
C4_EveryContinueRemoved ==
    LET rows == RowsRead
    IN  (tblPc = "done" /\ WellFormedTable) =>
            \A p \in CellsOfTable(rows) : IsContinue(rows, p) =>
                \A j \in 1..Len(TableRows[p[1]].children) :
                    TableRows[p[1]].children[j].children # CellAt(rows, p).children

\* C4 as amended: a continue cell whose column cursor is a column where an
\* earlier cell started is removed and adds one to the rowSpan of the owner
\* of that column; every other cell (merge-start, no marker, or a continue
\* at a column no earlier cell started at) is kept, owns its column and has
\* rowSpan 1 plus the cells merged into it.  A 2-row, 1-column table whose
\* second cell is a continue leaves one cell of rowSpan 2 and an empty row 2.
C4_RowSpans ==
    LET rows == RowsRead
    IN  (tblPc = "done" /\ WellFormedTable) =>
            /\ Len(TableRows) = Len(rows)
            /\ \A r \in 1..Len(rows) : TableRows[r] = ExpectedRow(rows, r)
            /\ (/\ Len(rows) = 2
                /\ Len(rows[1].children) = 1 /\ Len(rows[2].children) = 1
                /\ IsContinue(rows, <<2, 1>>))
               => /\ Len(TableRows[1].children) = 1
                  /\ TableRows[1].children[1].rowSpan = 2
                  /\ TableRows[2].children = <<>>

\* C4 witness: a continue cell under a cell of colSpan 2 that follows
\* another cell was merged, and a continue cell with no owner was kept
C4_Witness ==
    LET rows == RowsRead
    IN  /\ tblPc = "done" /\ WellFormedTable
        /\ \E p \in CellsOfTable(rows) :
              IsMergedCell(rows, p) /\ ColumnCursor(rows, p[1], p[2]) > 1
        /\ \E p \in CellsOfTable(rows) : IsContinue(rows, p) /\ ~IsMergedCell(rows, p)

\* C5: a table with a child that is no row, or a row with a child that is no
\* cell, is read with exactly one warning and its rows exactly as read: no
\* cell removed, no rowSpan changed; the Table node is produced.
C5_MalformedTableUnmodified ==
    LET rows == RowsRead
    IN  (tblPc = "done" /\ (unexpectedNonRows(rows) \/ unexpectedNonCells(rows))) =>
            /\ tblResult.messages =
                  combineResults(tblChildren).messages
                  \o <<IF unexpectedNonRows(rows) THEN NonRowWarning ELSE NonCellWarning>>
            /\ Len(tblResult.messages) = 1
            /\ tblResult.value = <<Table(rows)>>
            /\ \A i \in 1..Len(rows) :
                  rows[i].type = "tableRow" =>
                     \A j \in 1..Len(rows[i].children) :
                        rows[i].children[j].type = "tableCell" =>
                           TableRows[i].children[j].rowSpan = 1

\* C5 witness: a row holds a non-cell although a continue cell sits under an
\* owner cell, and the read completed
C5_Witness ==
    LET rows == RowsRead
    IN  /\ tblPc = "done" /\ ~unexpectedNonRows(rows) /\ unexpectedNonCells(rows)
        /\ \E p \in CellsOfTable(rows) :
              /\ CellAt(rows, p).type = "tableCell" /\ CellAt(rows, p).vMerge = "true"
              /\ p[1] > 1
              /\ Len(rows[p[1] - 1].children) > 0
              /\ rows[p[1] - 1].children[1].type = "tableCell"

(***************************************************************************)
(* Properties of findLevel                                                 *)
(***************************************************************************)
\* the numId findLevel(numId, _) calls itself with, <<>> when it does not
StyleLinkTarget(numId) ==
    IF /\ numId \in DOMAIN nums
       /\ nums[numId].abstractNumId \in DOMAIN abstractNums
       /\ abstractNums[nums[numId].abstractNumId].numStyleLink \in DOMAIN numberingStyles
    THEN <<numberingStyles[abstractNums[nums[numId].abstractNumId].numStyleLink].numId>>
    ELSE <<>>

\* following the style links from numId for n steps never leaves them
RECURSIVE LinksOnFor(_, _)
LinksOnFor(numId, n) ==
    IF n = 0 THEN TRUE
    ELSE StyleLinkTarget(numId) # <<>> /\ LinksOnFor(StyleLinkTarget(numId)[1], n - 1)

\* with finitely many numIds, a chain that long revisits an abstract definition
OnStyleLinkCycle(numId) == LinksOnFor(numId, Cardinality(NumIds) + 1)

\* C6: without a style-link cycle, findLevel returns one level or null:
\* null for an unknown numId, an unknown abstractNumId or a missing level.
C6_FindLevelReturnsLevelOrNull ==
    (numPc = "called" /\ ~OnStyleLinkCycle(levelQuery[1])) =>
        /\ levelResult.status = "returned"
        /\ Len(levelResult.value) <= 1
        /\ levelQuery[1] \notin DOMAIN nums => levelResult.value = <<>>
        /\ (levelQuery[1] \in DOMAIN nums
               /\ nums[levelQuery[1]].abstractNumId \notin DOMAIN abstractNums)
           => levelResult.value = <<>>

\* C7: on a style-link cycle findLevel returns null
C7_CycleFailsClosed ==
    (numPc = "called" /\ OnStyleLinkCycle(levelQuery[1])) => levelResult = ReturnedNull

(***************************************************************************)
(* Properties of the styles reader                                         *)
(***************************************************************************)
\* C8: reading a styles part always ends with every style resolved: no
\* basedOn chain, cyclic or not, recurses without bound.
C8_BasedOnCycleTerminates ==
    /\ stylesPc # "thrown"
    /\ \A k \in 1..Len(styleOrder) : styleOrder[k] \in DOMAIN customStyles

\* the value a style sets itself for a property, <<>> when it sets none
OwnProperty(styleElement, p) ==
    LET r == styleElement.rPr
        q == styleElement.pPr
    IN  IF p \in {"spacing", "alignment", "indent", "numbering"}
        THEN IF q = <<>> THEN <<>>
             ELSE IF p = "spacing" THEN q[1].spacing
             ELSE IF p = "alignment" THEN q[1].jc
             ELSE IF p = "indent" THEN q[1].ind
             ELSE q[1].numId
        ELSE IF r = <<>> THEN <<>>
             ELSE IF p = "fontSize" THEN (IF r[1].sz = <<>> THEN <<>> ELSE <<r[1].sz[1] \div 2>>)
             ELSE IF p = "color" THEN r[1].color
             ELSE IF p = "font" THEN r[1].rFonts
             ELSE IF p = "underline" THEN (IF r[1].u = <<>> THEN <<>> ELSE <<TRUE>>)
             ELSE LET el == IF p = "bold" THEN r[1].b
                            ELSE IF p = "italic" THEN r[1].i
                            ELSE IF p = "strike" THEN r[1].strike
                            ELSE IF p = "isAllCaps" THEN r[1].caps
                            ELSE r[1].smallCaps
                  IN  IF el = <<>> THEN <<>> ELSE <<TRUE>>

\* the value of the nearest style of the basedOn chain that sets the property
RECURSIVE NearestValue(_, _, _)
NearestValue(styleElement, p, n) ==
    IF OwnProperty(styleElement, p) # <<>> THEN OwnProperty(styleElement, p)
    ELSE IF n = 0 \/ styleElement.basedOn = <<>>
              \/ findStyleById(styleElement.basedOn[1], styleSets) = <<>>
    THEN <<>>
    ELSE NearestValue(findStyleById(styleElement.basedOn[1], styleSets)[1], p, n - 1)

InheritedProperties ==
    {"fontSize", "color", "font", "bold", "italic", "underline", "strike",
     "isAllCaps", "isSmallCaps", "spacing", "alignment", "indent"}

LastStyleId == styleOrder[Len(styleOrder)]

\* C9: the style read last resolves every property to its own value, or
\* else to the value of the nearest style of its basedOn chain that sets it.
C9_OwnThenNearestAncestor ==
    (/\ stylesPc = "reading" /\ styleOrder # <<>>
     /\ customStyles[LastStyleId].type \in {"paragraph", "character"}) =>
        LET styleElement == styleSets[customStyles[LastStyleId].type][LastStyleId]
        IN  \A p \in InheritedProperties :
                customStyles[LastStyleId].properties[p]
                    = NearestValue(styleElement, p, Cardinality(StyleIds))

(***************************************************************************)
(* Properties of readStyle                                                 *)
(***************************************************************************)
\* the registry readStyle consults for each kind of style reference
StyleSetOf(styleType) ==
    IF styleType = "Paragraph" THEN styleSets.paragraph
    ELSE IF styleType = "Run" THEN styleSets.character
    ELSE styleSets.table

LvlElementsRead ==
    FlattenLists([k \in DOMAIN numberingXml |-> numberingXml[k].lvls])

\* every w:abstractNum has its own id and, within it, every w:lvl its own w:ilvl
DistinctNumberingIds ==
    /\ \A k1, k2 \in DOMAIN numberingXml :
          numberingXml[k1].abstractNumId = numberingXml[k2].abstractNumId => k1 = k2
    /\ \A k \in DOMAIN numberingXml :
          \A j1, j2 \in DOMAIN numberingXml[k].lvls :
             numberingXml[k].lvls[j1].ilvl = numberingXml[k].lvls[j2].ilvl => j1 = j2

\* C11: findLevelByParagraphStyleId(styleId) returns the level whose w:pStyle
\* is styleId, null when no level names it, and the first such level in
\* definition order when several abstract numbering definitions name it.
C11_FirstLevelInDefinitionOrderWins ==
    (styleLevelCall # <<>> /\ DistinctNumberingIds) =>
        LET styleId == styleLevelCall[1]
            naming == {n \in DOMAIN LvlElementsRead : LvlElementsRead[n].pStyle = <<styleId>>}
        IN  IF naming = {}
            THEN styleLevelCall[2] = <<>>
            ELSE styleLevelCall[2] = <<readLevel(LvlElementsRead[MinOf(naming)])>>

RECURSIVE DocumentOrder(_)
DocumentOrder(elems) ==
    IF elems = <<>> THEN <<>>
    ELSE <<Head(elems).name, Head(elems).attr>>
         \o DocumentOrder(Head(elems).children) \o DocumentOrder(Tail(elems))

\* what a warning names: the unrecognised element, or the undefined style
MessageSubject(message) == IF Len(message) = 2 THEN message[2] ELSE message[3]

PositionIn(order, name) == MinOf({i \in 1..Len(order) : order[i] = name})

InDocumentOrder(messages, order) ==
    \A i, j \in 1..Len(messages) :
        i < j => PositionIn(order, MessageSubject(messages[i]))
                 < PositionIn(order, MessageSubject(messages[j]))

\* C14: when a body reader has read an element sequence, the warnings of
\* the result come in the document order of the elements that cause them,
\* a property block's warning before the warnings of the children.
C14_WarningsInDocumentOrder ==
    bodyPc = "done" => InDocumentOrder(readResult.messages, DocumentOrder(elements))

(***************************************************************************)
(* Properties of the calls on one reader                                   *)
(***************************************************************************)
\* the elements of the call in progress read alone by a new reader
ReadAlone == readXmlElements(elements, ReaderState(<<>>, <<>>, <<>>))

\* C15: a call of readXmlElements ends as the same elements read alone
\* end, thrown or returned with the same result, whatever the earlier calls
\* on the reader read and whatever state they left.
C15_ReadsIndependent ==
    /\ bodyPc = "done" => ~ReadAlone.thrown /\ readResult = ReadAlone.res
    /\ bodyPc = "thrown" => ReadAlone.thrown

\* C15 witness: an earlier call left an open hyperlink field and a deleted
\* paragraph's children, and a later call returned a run holding a text
C15_Witness ==
    /\ bodyPc = "done"
    /\ \E i \in 1..Len(earlierReads) :
          currentHyperlinkOptions(earlierReads[i].complexFieldStack) # <<Null>>
    /\ \E i \in 1..Len(earlierReads) :
          earlierReads[i].deletedParagraphContents # <<>>
    /\ \E i \in 1..Len(readResult.value) :
          /\ readResult.value[i].type = "run"
          /\ readResult.value[i].children # <<>>
          /\ readResult.value[i].children[1].type = "text"

(***************************************************************************)
(* Properties of isVisibleBulletList                                       *)
(***************************************************************************)
\* what findLevel yields for the call made
LevelFound == findLevel(nums, abstractNums, numberingStyles, bulletCall[1], bulletCall[2])

HasLevel == LevelFound.status = "returned" /\ LevelFound.value # <<>>

IsVisibleBulletLevel(levelInfo) ==
    /\ levelInfo.isBullet
    /\ ~levelInfo.isTentative
    /\ \/ levelInfo.delimiter \notin {<<>>, <<"">>}
       \/ levelInfo.bulletFont.ascii \in {<<"Symbol">>, <<"Wingdings">>}
       \/ levelInfo.bulletFont.hAnsi \in {<<"Symbol">>, <<"Wingdings">>}

\* C16: isVisibleBulletList returns true exactly when findLevel yields a
\* level that is a bullet, is not tentative and has delimiter text or a
\* Symbol or Wingdings font; it returns false when findLevel yields null, a
\* level that is no bullet or a tentative level.
C16_VisibleBulletList ==
    bulletCall # <<>> =>
        /\ bulletCall[3] = ReturnedValue(TRUE)
              <=> (HasLevel /\ IsVisibleBulletLevel(LevelFound.value[1]))
        /\ LevelFound = ReturnedNull => bulletCall[3] = ReturnedValue(FALSE)
        /\ HasLevel /\ ~LevelFound.value[1].isBullet
              => bulletCall[3] = ReturnedValue(FALSE)
        /\ HasLevel /\ LevelFound.value[1].isTentative
              => bulletCall[3] = ReturnedValue(FALSE)

\* C16 witness: true was returned for a level reached through a numbering
\* style, with no delimiter text and a Wingdings font
C16_Witness ==
    /\ bulletCall # <<>>
    /\ bulletCall[3] = ReturnedValue(TRUE)
    /\ abstractNums["a"].numStyleLink = "S"
    /\ abstractNums["b"].levels["0"].delimiter = <<>>
    /\ abstractNums["b"].levels["0"].bulletFont.hAnsi = <<"Wingdings">>

(***************************************************************************)
(* Properties of readFldChar                                               *)
(***************************************************************************)
\* a run whose child is a w:fldChar of type end or separate
IsClosingFldCharRun(element) ==
    /\ element.name = "w:r"
    /\ Len(element.children) = 1
    /\ element.children[1].name = "w:fldChar"
    /\ element.children[1].attr \in {"end", "separate"}

\* C17: when a w:fldChar of type end or separate is read while the field
\* stack is empty, the read throws: no result is added for the element and
\* the call returns none.
C17_ClosingFldCharOnEmptyStackThrows ==
    [][(/\ bodyPc = "reading"
        /\ complexFieldStack = <<>>
        /\ Len(elements') = Len(elements) + 1
        /\ IsClosingFldCharRun(elements'[Len(elements')]))
       => (bodyPc' = "thrown" /\ results' = results /\ readResult' = readResult)]_vars

\* C17 witness: a call that had read a text threw on a w:fldChar of type
\* separate with no field open
C17_Witness ==
    /\ bodyPc = "thrown"
    /\ complexFieldStack = <<>>
    /\ Len(elements) = 2
    /\ Len(results) = 1
    /\ IsClosingFldCharRun(elements[2])
    /\ elements[2].children[1].attr = "separate"

(***************************************************************************)
(* Properties of readXmlElement                                            *)
(***************************************************************************)
UnrecognisedElementWarning(name) == <<"An unrecognised element was ignored", name>>

\* C18: a node that is no element reads as the empty result; an element
\* with a reader is read by it, w:del included; an element without a reader
\* reads as the empty result when its name is in the ignore list, and
\* otherwise as no node and one warning that names it.
C18_Dispatch ==
    dispatchCall # <<>> =>
        LET node == dispatchCall[1]
            outcome == dispatchCall[2]
            new == ReaderState(<<>>, <<>>, <<>>)
        IN  /\ node.type # "element" => outcome = Returned(emptyResult, new)
            /\ node.type = "element" /\ node.name = "w:del"
                  => outcome = readDel(node, new)
            /\ node.type = "element" /\ node.name = "w:t"
                  => outcome = Returned(elementResult(Text(node.text)), new)
            /\ (/\ node.type = "element"
                /\ node.name \notin xmlElementReaderNames
                /\ node.name \in ignoreElements)
                  => outcome = Returned(emptyResult, new)
            /\ (/\ node.type = "element"
                /\ node.name \notin xmlElementReaderNames
                /\ node.name \notin ignoreElements)
                  => outcome = Returned(emptyResultWithMessages(
                                            <<UnrecognisedElementWarning(node.name)>>), new)

(***************************************************************************)
(* Properties of the unit conversion                                       *)
(***************************************************************************)
ConvertedTo(numeral, unitType, pixels) ==
    (pixelsCall[1] = numeral /\ pixelsCall[2] = unitType) => pixelsCall[3] = pixels

\* C19 as stated: 914400 EMU, 240 DXA and 72 pt each convert to exactly 96
\* pixels.
C19_ReferenceValuesAsStated ==
    pixelsCall # <<>> =>
        /\ ConvertedTo(Numeral(914400, 0), "EMU", NumberOf(96))
        /\ ConvertedTo(Numeral(240, 0), "DXA", NumberOf(96))
        /\ ConvertedTo(Numeral(72, 0), "pt", NumberOf(96))

\* C19: 914400 EMU, 1440 DXA and 72 pt each convert to exactly 96 pixels,
\* and 240 DXA converts to exactly 16 pixels.
C19_ReferenceValues ==
    pixelsCall # <<>> =>
        /\ ConvertedTo(Numeral(914400, 0), "EMU", NumberOf(96))
        /\ ConvertedTo(Numeral(1440, 0), "DXA", NumberOf(96))
        /\ ConvertedTo(Numeral(72, 0), "pt", NumberOf(96))
        /\ ConvertedTo(Numeral(240, 0), "DXA", NumberOf(16))

\* C19 witness: 240 DXA was converted, to 16 pixels
C19_Witness ==
    pixelsCall = <<Numeral(240, 0), "DXA", NumberOf(16)>>

\* value * 96/914400, (value/20) * 96/72, value * 96/72, value * 96/2.54,
\* value * 96 and value, for the unit suffix written
PixelsAt96Dpi(value, unit) ==
    IF unit = "emu" THEN NumberTimes(value, PixelsPerEmu)
    ELSE IF unit = "dxa"
    THEN NumberTimes(NumberDividedBy(value, NumberOf(20)), PixelsPerPoint)
    ELSE IF unit = "pt" THEN NumberTimes(value, PixelsPerPoint)
    ELSE IF unit = "cm" THEN NumberTimes(value, PixelsPerCm)
    ELSE IF unit = "in" THEN NumberTimes(value, NumberOf(96))
    ELSE value

\* the last declaration of a property in a style, 0 when there is none
LastDeclaration(style, property) ==
    LET declared == {i \in 1..Len(style) : style[i].property = property}
    IN  IF declared = {} THEN 0 ELSE MaxOf(declared)

DimensionInPixels(style, property, dimension) ==
    LET last == LastDeclaration(style, property)
    IN  (last # 0 /\ style[last].unit \in CapturedUnits)
            => dimension = <<PixelsAt96Dpi(parseFloat(style[last].value), style[last].unit)>>

\* C20: a width or height written with one of the suffixes pt, px, cm, in,
\* dxa and emu is returned converted to pixels by the constant of that unit.
C20_ShapeDimensionsInPixels ==
    shapeCall # <<>> =>
        /\ DimensionInPixels(shapeCall[1], "width", shapeCall[2].width)
        /\ DimensionInPixels(shapeCall[1], "height", shapeCall[2].height)

(***************************************************************************)
(* Properties of read()                                                    *)
(***************************************************************************)
\* the parts read before the main document
PartsBeforeMain ==
    IF partPaths = <<>> THEN NotesParts
    ELSE NotesParts \cup PathsOf("header", partPaths[1].headers)
                    \cup PathsOf("footer", partPaths[1].footers)

\* items are those of the paths of a kind, in the order of the paths
InPathOrder(items, kind, count) ==
    /\ Len(items) = count
    /\ \A index \in 1..count :
          /\ items[index].partType = kind
          /\ items[index].sectionIndex = index
          /\ items[index].reader = bodyReaders[Part(kind, index)]

\* a part of a kind completed before a part of the same kind that precedes
\* it in partPaths
CompletedOutOfOrder(kind) ==
    \E i, j \in 1..Len(settled) :
        /\ i < j
        /\ settled[i].kind = kind /\ settled[j].kind = kind
        /\ settled[i].index > settled[j].index

\* C21: every read of a notes, comments, header or footer part has its own
\* body reader; the read of the main document is started, and the document
\* converted, only when all of those reads have completed; and the headers
\* and footers handed to the conversion are in the order of their paths.
C21_PartsJoinedBeforeMain ==
    /\ \A p, q \in DOMAIN bodyReaders : p # q => bodyReaders[p] # bodyReaders[q]
    /\ (MainDocument \in DOMAIN partPc \/ finalDocument # <<>>) =>
           \A part \in PartsBeforeMain : part \in DOMAIN partPc /\ partPc[part] = "done"
    /\ finalDocument # <<>> =>
           /\ InPathOrder(finalDocument[1].headers, "header", partPaths[1].headers)
           /\ InPathOrder(finalDocument[1].footers, "footer", partPaths[1].footers)

\* C21 witness: the document was converted after the second header part
\* completed before the first
C21_Witness ==
    /\ finalDocument # <<>>
    /\ CompletedOutOfOrder("header")

(***************************************************************************)
(* Properties of nested complex fields                                     *)
(***************************************************************************)
\* the fldCharType of the marker a run of SpecFields holds, "" for a run
\* that only holds an instruction text
MarkerOf(element) == element.children[1].attr

Markers(elems, type) ==
    Cardinality({i \in 1..Len(elems) : MarkerOf(elems[i]) = type})

\* the Run node read from the last element
LastRun(rs) == rs[Len(rs)].value[1]

BelowTop(stack) == SubSeq(stack, 1, Len(stack) - 1)

\* the target of the innermost open frame classified as hyperlink, <<>> when
\* no open frame is one
RECURSIVE InnermostOpenHyperlink(_)
InnermostOpenHyperlink(stack) ==
    IF stack = <<>> THEN <<>>
    ELSE IF stack[Len(stack)].type = "hyperlink" THEN <<stack[Len(stack)].options>>
    ELSE InnermostOpenHyperlink(BelowTop(stack))

WrappedWith(run, target) ==
    IF target = <<>> THEN CountNodes(<<run>>, "hyperlink") = 0
    ELSE /\ Len(run.children) = 1
         /\ run.children[1].type = "hyperlink"
         /\ run.children[1].val = target[1]

HrefY == <<"href", "http://y">>

\* C22: every run is wrapped with the target of the innermost frame that is
\* open after the run's own markers and is classified as hyperlink, whatever
\* frames of type begin, checkbox or unknown lie above it, and is not
\* wrapped when no open frame is a hyperlink.
C22_InnermostOpenHyperlinkWraps ==
    (bodyPc = "reading" /\ results # <<>>) =>
        WrappedWith(LastRun(results), InnermostOpenHyperlink(complexFieldStack))

\* C22 witness: the run that ends an inner hyperlink field to y is wrapped
\* with the enclosing field's target x, the run before it with y
C22_Witness ==
    /\ bodyPc = "reading" /\ Len(results) >= 2
    /\ MarkerOf(elements[Len(elements)]) = "end"
    /\ WrappedWith(LastRun(results), <<HrefX>>)
    /\ WrappedWith(LastRun(BelowTop(results)), <<HrefY>>)

\* a run was read without a TypeError
RunRead == Len(elements') = Len(elements) + 1 /\ bodyPc' = "reading"

\* the frame an end marker pops, classified from the accumulated
\* instruction text when it was never separated
EndedFrame ==
    LET top == complexFieldStack[Len(complexFieldStack)]
    IN  IF top.type = "begin" THEN parseInstrText(Flatten(currentInstrText), FALSE) ELSE top

\* C23: an end marker pops the top frame and yields one Checkbox node when
\* the frame, classified from the accumulated instruction text if it was
\* never separated, is a checkbox, and no node otherwise; begin and
\* separate markers yield no node.
C23_CheckboxOnlyOnCheckboxEnd ==
    [][RunRead =>
          LET marker == MarkerOf(elements'[Len(elements')])
              checkboxes == CountNodes(<<LastRun(results')>>, "checkbox")
          IN  IF marker = "end"
              THEN /\ complexFieldStack' = BelowTop(complexFieldStack)
                   /\ checkboxes = IF EndedFrame.type = "checkbox" THEN 1 ELSE 0
              ELSE checkboxes = 0]_vars

\* C23 witness: a FORMCHECKBOX field was ended without a separate marker
\* and its run holds a Checkbox node
C23_Witness ==
    /\ bodyPc = "reading" /\ Len(elements) = 2
    /\ MarkerOf(elements[2]) = "end"
    /\ CountNodes(results[2].value, "checkbox") = 1

\* C24: as long as every end and separate finds an open frame, the depth of
\* the stack is the number of begin markers minus the number of end markers
\* read; begin pushes one frame of type begin, separate replaces the top
\* frame by its classification and leaves the frames below, end removes the
\* top frame.
C24_StackDepth ==
    [][RunRead =>
          LET marker == MarkerOf(elements'[Len(elements')])
              before == complexFieldStack
              after == complexFieldStack'
          IN  /\ Len(after) = Markers(elements', "begin") - Markers(elements', "end")
              /\ marker = "begin" => after = Append(before, Frame("begin", <<>>, FALSE))
              /\ marker = "separate" =>
                     /\ Len(after) = Len(before)
                     /\ BelowTop(after) = BelowTop(before)
                     /\ after[Len(after)].type \in {"hyperlink", "checkbox", "unknown"}
              /\ marker = "end" => after = BelowTop(before)
              /\ marker = "" => after = before]_vars

\* C24 witness: two fields were begun, one separated and one ended
C24_Witness ==
    /\ bodyPc = "reading"
    /\ Markers(elements, "begin") = 2 /\ Markers(elements, "end") = 1
    /\ Markers(elements, "separate") >= 1
    /\ Len(complexFieldStack) = 1

\* the children of the runs read, in document order
RECURSIVE ChildrenOf(_)
ChildrenOf(elems) ==
    IF elems = <<>> THEN <<>> ELSE Head(elems).children \o ChildrenOf(Tail(elems))

\* for each open field, the instruction text read between its begin marker
\* and now, outside any nested field
RECURSIVE OwnInstrTexts(_, _)
OwnInstrTexts(children, texts) ==
    IF children = <<>> THEN texts
    ELSE LET child == Head(children)
         IN  OwnInstrTexts(Tail(children),
                 IF child.name = "w:fldChar" /\ child.attr = "begin"
                 THEN Append(texts, <<>>)
                 ELSE IF child.name = "w:fldChar" /\ child.attr = "end"
                 THEN BelowTop(texts)
                 ELSE IF child.name = "w:instrText" /\ texts # <<>>
                 THEN [texts EXCEPT ![Len(texts)] = @ \o child.text]
                 ELSE texts)

\* C26: when a field is separated, its frame is the classification of the
\* instruction text read between its own begin marker and this separate
\* marker outside any nested field; the text of a nested field that began
\* and ended in between neither replaces it nor is appended to it.
C26_ClassifiedFromOwnInstrText ==
    (bodyPc = "reading" /\ elements # <<>>
        /\ MarkerOf(elements[Len(elements)]) = "separate") =>
        LET texts == OwnInstrTexts(ChildrenOf(elements), <<>>)
        IN  complexFieldStack[Len(complexFieldStack)]
                = parseInstrText(texts[Len(texts)], FALSE)

(***************************************************************************)
(* Properties of the extra channel                                         *)
(***************************************************************************)
\* the labels of the w:t elements under elems that lie inside a w:pict
\* (wanted = TRUE) or outside every w:pict (wanted = FALSE), in order
RECURSIVE PictTexts(_, _, _)
PictTexts(elems, wanted, inside) ==
    IF elems = <<>> THEN <<>>
    ELSE LET e == Head(elems)
         IN  (IF e.name = "w:t"
              THEN (IF inside = wanted THEN <<e.text>> ELSE <<>>)
              ELSE PictTexts(e.children, wanted, inside \/ e.name = "w:pict"))
             \o PictTexts(Tail(elems), wanted, inside)

PositionsLeft(rows, p) ==
    {j \in 1..Len(TableRows[p[1]].children) :
        TableRows[p[1]].children[j].children = CellAt(rows, p).children}

IsRemoved(rows, p) == PositionsLeft(rows, p) = {}

RowSpanLeft(rows, p) == TableRows[p[1]].children[MinOf(PositionsLeft(rows, p))].rowSpan

\* a continue cell at column c of row r was removed
RemovedContinueAt(rows, r, c) ==
    \E j \in 1..Len(rows[r].children) :
        /\ ColumnCursor(rows, r, j) = c
        /\ IsContinue(rows, <<r, j>>)
        /\ IsRemoved(rows, <<r, j>>)

\* C27: a cell left with rowSpan n at column c of row r extends over the
\* n - 1 rows directly below it, each of which held a continue cell at
\* column c that was removed: no continuation extends a cell of a row that
\* is not adjacent to the rows the cell already covers.
C27_ContinuationExtendsCellAbove ==
    LET rows == RowsRead
    IN  (tblPc = "done" /\ WellFormedTable) =>
            \A p \in CellsOfTable(rows) :
                ~IsRemoved(rows, p) =>
                    \A k \in 1..(RowSpanLeft(rows, p) - 1) :
                        /\ p[1] + k <= Len(rows)
                        /\ RemovedContinueAt(rows, p[1] + k,
                                             ColumnCursor(rows, p[1], p[2]))

RECURSIVE SumOver(_, _)
SumOver(S, rows) ==
    IF S = {} THEN 0
    ELSE LET p == CHOOSE q \in S : TRUE
         IN  RowSpanLeft(rows, p) + SumOver(S \ {p}, rows)

\* no earlier cell started at the column of p
FirstAtColumn(rows, p) ==
    \A q \in CellsOfTable(rows) :
        Before(q, p) => ColumnCursor(rows, q[1], q[2]) # ColumnCursor(rows, p[1], p[2])

\* C28: of the cells read, each is left once in its row or removed; the
\* rowSpans of the cells left add up to the number of cells read; a removed
\* cell was a continue cell; the first cell at a column is left even when it
\* is a continue cell; and no cell left carries the vertical-merge flag.
C28_CellsConserved ==
    LET rows == RowsRead
        cells == CellsOfTable(rows)
        left == {p \in cells : ~IsRemoved(rows, p)}
    IN  (tblPc = "done" /\ WellFormedTable) =>
            /\ Len(TableRows) = Len(rows)
            /\ \A r \in 1..Len(rows) :
                  Len(TableRows[r].children) = Cardinality({p \in left : p[1] = r})
            /\ \A p \in left : Cardinality(PositionsLeft(rows, p)) = 1
            /\ SumOver(left, rows) = Cardinality(cells)
            /\ \A p \in cells \ left : IsContinue(rows, p) /\ ~FirstAtColumn(rows, p)
            /\ \A p \in cells : FirstAtColumn(rows, p) => p \in left
            /\ \A r \in 1..Len(TableRows) : \A j \in 1..Len(TableRows[r].children) :
                  TableRows[r].children[j].vMerge = "absent"

\* C28 witness: a cell was left with rowSpan 3 and a continue cell that is
\* the first at its column was left too
C28_Witness ==
    LET rows == RowsRead
    IN  /\ tblPc = "done" /\ WellFormedTable
        /\ \E p \in CellsOfTable(rows) :
              ~IsRemoved(rows, p) /\ RowSpanLeft(rows, p) = 3
        /\ \E p \in CellsOfTable(rows) :
              IsContinue(rows, p) /\ FirstAtColumn(rows, p) /\ ~IsRemoved(rows, p)

(***************************************************************************)
(* Order of the w:style elements                                           *)
(***************************************************************************)
\* the basedOn chain of the style ends within n steps
RECURSIVE ChainEnds(_, _)
ChainEnds(styleElement, n) ==
    \/ styleElement.basedOn = <<>>
    \/ findStyleById(styleElement.basedOn[1], styleSets) = <<>>
    \/ /\ n > 0
       /\ ChainEnds(findStyleById(styleElement.basedOn[1], styleSets)[1], n - 1)

\* the styles read are paragraph styles of distinct ids with an acyclic
\* basedOn relation
DistinctAcyclicStyles ==
    /\ stylesPc = "reading"
    /\ \A j, k \in 1..Len(styleOrder) : styleOrder[j] = styleOrder[k] => j = k
    /\ \A k \in 1..Len(styleOrder) :
          /\ styleOrder[k] \in DOMAIN styleSets.paragraph
          /\ ChainEnds(styleSets.paragraph[styleOrder[k]], Cardinality(StyleIds))

\* C29: the properties a style resolved to do not depend on where it was
\* declared: each style read has the properties it resolves to when the same
\* styles are declared with it as the last one, after its parent.
C29_ResolvedAsWhenDeclaredLast ==
    DistinctAcyclicStyles =>
        \A k \in 1..Len(styleOrder) :
            customStyles[styleOrder[k]].properties
                = extractStyleProperties(styleSets.paragraph[styleOrder[k]],
                                         styleSets).properties

(***************************************************************************)
(* Properties of readNumberingProperties                                   *)
(***************************************************************************)
\* the glyph of a level: the delimiter text if it has one, else the default
\* of its font, else the generic bullet; Null when the level is no bullet
GlyphOf(levelInfo) ==
    IF ~levelInfo.isBullet THEN Null
    ELSE IF levelInfo.delimiter \notin {<<>>, <<"">>} THEN levelInfo.delimiter[1]
    ELSE IF <<"Symbol">> \in {levelInfo.bulletFont.ascii, levelInfo.bulletFont.hAnsi}
    THEN StandardBullet
    ELSE IF <<"Wingdings">> \in {levelInfo.bulletFont.ascii, levelInfo.bulletFont.hAnsi}
    THEN WingdingsBullet
    ELSE StandardBullet

\* the level the call finds by (numId, level), <<>> when it looks for none
\* or finds none
FoundByNumId ==
    IF numberingCall[2] # <<>> /\ numberingCall[3] # <<>>
    THEN findLevel(nums, abstractNums, numberingStyles,
                   numberingCall[3][1], numberingCall[2][1]).value
    ELSE <<>>

\* the level the call finds through the paragraph style id
FoundByStyleId ==
    IF (numberingCall[2] = <<>> \/ numberingCall[3] = <<>>) /\ numberingCall[1] # Null
    THEN findLevelByParagraphStyleId(levelsByParagraphStyleId[1], numberingCall[1])
    ELSE <<>>

\* C30: the numbering properties of a paragraph agree with the numbering
\* registry whichever way the level was found, by (numId, level) or through
\* the paragraph style id: isVisibleBulletList is the visible-bullet
\* predicate of the level and bulletCharacter is the glyph of the level;
\* they are null when neither lookup finds a level.
C30_AgreesWithRegistry ==
    numberingCall # <<>> =>
        LET outcome == numberingCall[4]
            found == FoundByNumId \o FoundByStyleId
        IN  /\ outcome.status = "returned"
            /\ found = <<>> => outcome.value[1] = <<>>
            /\ found # <<>> =>
                  /\ outcome.value[1] # <<>>
                  /\ outcome.value[1][1].level = found[1]
                  /\ outcome.value[1][1].isVisibleBulletList = IsVisibleBulletLevel(found[1])
                  /\ outcome.value[1][1].bulletCharacter = GlyphOf(found[1])

====
